---- MODULE Spec2Model ----
(***************************************************************************)
(* A model of csvdoc: struct-tag schema resolution, header binding, the    *)
(* default converters, the streaming FileReader and the FileWriter.        *)
(*                                                                         *)
(* Text is modelled as a sequence of symbols.  A struct tag such as        *)
(* `csv:"id,name"` is the symbol sequence <<"id", ",", "name">>; a column  *)
(* name is the symbol sequence left between two commas, so the empty name  *)
(* is <<>> and the name "-" is <<"-">>.  Decimal text is a sequence of     *)
(* digit symbols.                                                          *)
(***************************************************************************)
EXTENDS Integers, Sequences, FiniteSets, TLC

VARIABLES
    structTags,   \* tag resolution: the csv tag of each declared field
    tagOut,       \* tag resolution: what the last resolution returned
    cvType,       \* converters: the field's declared type
    cvVal,        \* converters: the field's value handed to the write converter
    cvCell,       \* converters: a cell text handed to a read converter
    cvText,       \* converters: what the write converter returned
    cvRead,       \* converters: what the read converter returned, and the field
    rSchema,      \* reader: the record type T, a sequence of [tag, tp] fields
    rFile,        \* reader: the file's lines, each a sequence of cell texts
    rState,       \* reader: "new", "open" (NewFileReader returned a reader) or "failed"
    rHandle,      \* reader: the os.File: [open, off, opened, released]
    rBuf,         \* reader: the lines csv.Reader's bufio.Reader holds unread
    rFieldsPerRecord, \* reader: csv.Reader.FieldsPerRecord
    rMaps,        \* reader: [reflectIndexes, headerIndex, indexHeader]
    rCustom,      \* reader: customConverters
    rRet,         \* reader: what the last call returned
    rSince,       \* reader: Read calls since the last Reset that returned nil
                  \* (-1: no Reset has moved the offset, -2: the last one that did failed)
    rCalls,       \* reader: calls made so far
    wSchema,      \* writer: the record type T, a sequence of [tag, tp] fields
    wState,       \* writer: "new", "open" (NewFileWriter returned a writer) or "failed"
    wOpts,        \* writer: opts: [writeHeader, escapeRune, outputHeader]
    wMaps,        \* writer: [reflectIndexes, headerIndex, indexHeader]
    wCustom,      \* writer: customConverters
    hasWrittenHeaders,   \* writer: the flag of the same name
    hasWrittenHeaderMux, \* writer: 0 when the mutex is free, else the goroutine holding it
    wHandle,      \* writer: the os.File: [open, opened, released]
    wBuf,         \* writer: the buffer of csv.Writer's bufio.Writer, a sequence of tokens
    wN,           \* writer: the bufio.Writer's fill count n
    wDisk,        \* writer: the tokens flushed to the file
    wErr,         \* writer: the sticky error of csv.Writer's bufio.Writer
    wRet,         \* writer: what the last call returned, if it returned
    wWritten,     \* writer: the rows of the Write calls that returned nil, in call order
    wCalls,       \* writer: Write and Close calls made so far
    tPc,          \* writer: where each goroutine stands in its Write call
    tRec,         \* writer: the record each goroutine passes to Write
    tRow,         \* writer: the tokens of its row each goroutine has yet to write
    tN,           \* writer: the fill count each goroutine has loaded
    tErr          \* writer: what each goroutine's Write returned

tagVars == <<structTags, tagOut>>
convVars == <<cvType, cvVal, cvCell, cvText, cvRead>>
readerVars == <<rSchema, rFile, rState, rHandle, rBuf, rFieldsPerRecord, rMaps,
                rCustom, rRet, rSince, rCalls>>
fileWriterVars == <<wSchema, wState, wOpts, wMaps, wCustom, hasWrittenHeaders,
                    hasWrittenHeaderMux, wHandle, wBuf, wN, wDisk, wErr, wRet, wWritten,
                    wCalls>>
goroutineVars == <<tPc, tRec, tRow, tN, tErr>>
writerVars == <<fileWriterVars, goroutineVars>>
vars == <<tagVars, convVars, readerVars, writerVars>>

----------------------------------------------------------------------------
(* Generic helpers. *)

\* Go's map[k] = v.
MapPut(m, k, v) == [x \in (DOMAIN m) \cup {k} |-> IF x = k THEN v ELSE m[x]]

\* Go's delete(m, k).
MapDelete(m, k) == [x \in (DOMAIN m) \ {k} |-> m[x]]

\* An empty (or nil) Go map.
EmptyMap == <<>>

\* All sequences over S of length at most n.
SeqsUpTo(S, n) == UNION {[1..k -> S] : k \in 0..n}

----------------------------------------------------------------------------
(* errors.go *)

ErrNone == "nil"
ErrStructTagNotInCSV == "struct tag not in csv"
ErrDuplicateHeaderInCSV == "duplicate header in csv"
ErrStructTagDuplicate == "struct tag duplicate"
ErrConverterNotFoundForType == "converter not found for type"
ErrNotFoundHeaderInCSV == "header not found in csv"
ErrTypeOverflow == "conversion type overlow"
ErrToFewStructTags == "to few struct tags"

----------------------------------------------------------------------------
(* The state of each part of the module before it is used; a specification   *)
(* of one part leaves the others there.                                      *)

NoCall == [fn |-> "none", forWrite |-> FALSE,
           err |-> ErrNone, nilMap |-> TRUE, map |-> EmptyMap]

TagIdle ==
    /\ structTags = <<>>
    /\ tagOut = NoCall

NoText == [done |-> FALSE, err |-> ErrNone, s |-> <<>>]
NoRead == [table |-> "none", src |-> "none", err |-> ErrNone, val |-> <<>>]

ConvIdle ==
    /\ cvType = "string"
    /\ cvVal = <<>>
    /\ cvCell = <<>>
    /\ cvText = NoText
    /\ cvRead = NoRead

NoHandle == [open |-> FALSE, off |-> 0, opened |-> 0, released |-> 0]
NoMaps == [reflectIndexes |-> EmptyMap, headerIndex |-> EmptyMap, indexHeader |-> EmptyMap]
NoRet == [op |-> "none", arg |-> <<>>, err |-> ErrNone, stage |-> "none",
          nilRec |-> TRUE, rec |-> <<>>, line |-> 0]

ReaderIdle ==
    /\ rSchema = <<>>
    /\ rFile = <<>>
    /\ rState = "new"
    /\ rHandle = NoHandle
    /\ rBuf = <<>>
    /\ rFieldsPerRecord = 0
    /\ rMaps = NoMaps
    /\ rCustom = EmptyMap
    /\ rRet = NoRet
    /\ rSince = 0 - 1
    /\ rCalls = 0

NoOpts == [writeHeader |-> TRUE, escapeRune |-> ",", outputHeader |-> [set |-> FALSE, names |-> <<>>]]
NoFile == [open |-> FALSE, opened |-> 0, released |-> 0]
NoWRet == [op |-> "none", arg |-> <<>>, err |-> ErrNone, returned |-> TRUE]

FileWriterIdle ==
    /\ wSchema = <<>>
    /\ wState = "new"
    /\ wOpts = NoOpts
    /\ wMaps = NoMaps
    /\ wCustom = EmptyMap
    /\ hasWrittenHeaders = FALSE
    /\ hasWrittenHeaderMux = 0
    /\ wHandle = NoFile
    /\ wBuf = <<>>
    /\ wN = 0
    /\ wDisk = <<>>
    /\ wErr = ErrNone
    /\ wRet = NoWRet
    /\ wWritten = <<>>
    /\ wCalls = 0

GoroutinesIdle ==
    /\ tPc = <<>>
    /\ tRec = <<>>
    /\ tRow = <<>>
    /\ tN = <<>>
    /\ tErr = <<>>

WriterIdle == FileWriterIdle /\ GoroutinesIdle

----------------------------------------------------------------------------
(* Schema resolution: buildReflectTagIndexCache. *)

\* A field that carries no csv tag (csvTag.Lookup("csv") fails).
NoTag == <<"<no csv tag>">>

Comma == ","
Dash == <<"-">>
EmptyName == <<>>

\* strings.Split(tag, ","): the segments between commas, at least one.
RECURSIVE Split(_)
Split(tag) ==
    IF \E i \in 1..Len(tag) : tag[i] = Comma
    THEN LET i == CHOOSE j \in 1..Len(tag) :
                      /\ tag[j] = Comma
                      /\ \A k \in 1..(j - 1) : tag[k] # Comma
         IN <<SubSeq(tag, 1, i - 1)>> \o Split(SubSeq(tag, i + 1, Len(tag)))
    ELSE <<tag>>

\* The segment list the loop body looks at (readTag after the forWrite cut).
TagSegments(tag, forWrite) ==
    LET readTag == Split(tag)
    IN IF forWrite /\ Len(readTag) > 1 THEN Tail(readTag) ELSE readTag

\* A variant that forgets the forWrite cut: the write map is built from the
\* read names.
TagNameIgnoringDirection(tag, forWrite) == Head(Split(tag))

\* readTag[0]: the name a tagged field resolves to in the given direction.
TagName(tag, forWrite) == Head(TagSegments(tag, forWrite))

\* A variant of the inclusion test that keeps the name "-".
IsIncludedNameDashKept(name) == name # EmptyName

\* readTag[0] != "" && readTag[0] != "-"
IsIncludedName(name) == name # EmptyName /\ name # Dash

\* The loop of buildReflectTagIndexCache from field i on (1-based position
\* in tags; the map stores Go's 0-based field index).
RECURSIVE ReflectLoop(_, _, _, _)
ReflectLoop(tags, forWrite, i, fieldIndexes) ==
    IF i > Len(tags)
    THEN [err |-> ErrNone, nilMap |-> FALSE, map |-> fieldIndexes]
    ELSE IF tags[i] = NoTag
    THEN ReflectLoop(tags, forWrite, i + 1, fieldIndexes)
    ELSE LET name == TagName(tags[i], forWrite)
         IN IF name \in DOMAIN fieldIndexes
            THEN [err |-> ErrStructTagDuplicate, nilMap |-> TRUE, map |-> EmptyMap]
            ELSE ReflectLoop(tags, forWrite, i + 1,
                             IF IsIncludedName(name)
                             THEN MapPut(fieldIndexes, name, i - 1)
                             ELSE fieldIndexes)

\* csvdoc.go: buildReflectTagIndexCache[T](forWrite).
buildReflectTagIndexCache(tags, forWrite) ==
    ReflectLoop(tags, forWrite, 1, EmptyMap)

\* reader.go: buildReflectTagIndexCache[T](), the reader's own copy, which
\* always takes segment 0.
buildReflectTagIndexCacheRead(tags) ==
    ReflectLoop(tags, FALSE, 1, EmptyMap)

----------------------------------------------------------------------------
(* strconv and time, as far as the default converters use them. *)

Digits == <<"0", "1", "2", "3", "4", "5", "6", "7", "8", "9">>
DigitSet == {Digits[i] : i \in 1..10}
DigitVal(c) == (CHOOSE i \in 1..10 : Digits[i] = c) - 1

ErrSyntax == "strconv: invalid syntax"
ErrRange == "strconv: value out of range"

RECURSIVE FormatNat(_)
FormatNat(n) ==
    IF n < 10 THEN <<Digits[n + 1]>>
    ELSE FormatNat(n \div 10) \o <<Digits[(n % 10) + 1]>>

\* strconv.FormatInt(v, 10)
FormatInt(v) == IF v < 0 THEN <<"-">> \o FormatNat(0 - v) ELSE FormatNat(v)

\* strconv.FormatUint(v, 10)
FormatUint(v) == FormatNat(v)

RECURSIVE NatOf(_, _)
NatOf(s, acc) ==
    IF s = <<>> THEN acc ELSE NatOf(Tail(s), acc * 10 + DigitVal(Head(s)))

AllDigits(s) == \A i \in 1..Len(s) : s[i] \in DigitSet

\* The largest value of a signed or unsigned integer of the given width.
\* The decimal texts of the model have fewer than ten digits, so nothing
\* leaves the 64-bit range.
MaxOfBits(bits, signed) ==
    CASE bits = 16 -> IF signed THEN 32767 ELSE 65535
      [] OTHER -> 2147483647

FitsBits(v, bits, signed) ==
    \/ bits = 64
    \/ bits = 32 /\ ~signed
    \/ /\ v <= MaxOfBits(bits, signed)
       /\ v >= (IF signed THEN 0 - MaxOfBits(bits, signed) - 1 ELSE 0)

\* strconv.ParseUint(s, 10, bits)
ParseUint(s, bits) ==
    IF s = <<>> \/ ~AllDigits(s) THEN [err |-> ErrSyntax, val |-> 0]
    ELSE IF ~FitsBits(NatOf(s, 0), bits, FALSE) THEN [err |-> ErrRange, val |-> 0]
    ELSE [err |-> ErrNone, val |-> NatOf(s, 0)]

\* strconv.ParseInt(s, 10, bits)
ParseInt(s, bits) ==
    IF s = <<>> THEN [err |-> ErrSyntax, val |-> 0]
    ELSE LET neg == Head(s) = "-"
             body == IF Head(s) \in {"-", "+"} THEN Tail(s) ELSE s
         IN IF body = <<>> \/ ~AllDigits(body) THEN [err |-> ErrSyntax, val |-> 0]
            ELSE LET v == IF neg THEN 0 - NatOf(body, 0) ELSE NatOf(body, 0)
                 IN IF ~FitsBits(v, bits, TRUE) THEN [err |-> ErrRange, val |-> 0]
                    ELSE [err |-> ErrNone, val |-> v]

\* strconv.FormatBool
FormatBool(b) == IF b THEN <<"t", "r", "u", "e">> ELSE <<"f", "a", "l", "s", "e">>

\* strings.ToLower on the letters the model's texts hold.
LowerOf(c) ==
    CASE c = "T" -> "t" [] c = "R" -> "r" [] c = "U" -> "u" [] c = "E" -> "e"
      [] c = "O" -> "o" [] c = "N" -> "n" [] c = "Y" -> "y" [] c = "S" -> "s"
      [] c = "F" -> "f" [] c = "A" -> "a" [] c = "L" -> "l"
      [] OTHER -> c
ToLower(s) == [i \in 1..Len(s) |-> LowerOf(s[i])]

\* cmp == "true" || cmp == "1" || cmp == "on" || cmp == "yes" || cmp == "y"
IsTrueText(cmp) ==
    cmp \in {<<"t", "r", "u", "e">>, <<"1">>, <<"o", "n">>, <<"y", "e", "s">>, <<"y">>}

(* A float64 is modelled by its value in hundredths: the floats whose        *)
(* shortest decimal text has at most two fraction digits.                     *)
FracText(h) ==
    IF h % 100 = 0 THEN <<>>
    ELSE IF h % 10 = 0 THEN <<".", Digits[((h \div 10) % 10) + 1]>>
    ELSE <<".", Digits[((h \div 10) % 10) + 1], Digits[(h % 10) + 1]>>

\* strconv.FormatFloat(v, 'f', -1, 64)
FormatFloat(h) ==
    LET a == IF h < 0 THEN 0 - h ELSE h
    IN (IF h < 0 THEN <<"-">> ELSE <<>>) \o FormatNat(a \div 100) \o FracText(a)

DotAt(s) == IF \E i \in 1..Len(s) : s[i] = "."
            THEN CHOOSE i \in 1..Len(s) : s[i] = "." /\ \A k \in 1..(i - 1) : s[k] # "."
            ELSE Len(s) + 1

\* strconv.ParseFloat(s, 64), on plain decimal texts with at most two
\* fraction digits (other texts of the model are syntax errors).
ParseFloat(s) ==
    IF s = <<>> THEN [err |-> ErrSyntax, val |-> 0]
    ELSE LET neg == Head(s) = "-"
             body == IF Head(s) \in {"-", "+"} THEN Tail(s) ELSE s
             d == DotAt(body)
             ip == SubSeq(body, 1, d - 1)
             fp == SubSeq(body, d + 1, Len(body))
         IN IF \/ ~AllDigits(ip) \/ ~AllDigits(fp)
               \/ (ip = <<>> /\ fp = <<>>) \/ Len(fp) > 2
            THEN [err |-> ErrSyntax, val |-> 0]
            ELSE LET a == NatOf(ip, 0) * 100
                          + (IF Len(fp) = 1 THEN NatOf(fp, 0) * 10 ELSE NatOf(fp, 0))
                 IN [err |-> ErrNone, val |-> IF neg THEN 0 - a ELSE a]

(* A time.Time is [sec, nsec, off]: the instant in seconds, its nanosecond   *)
(* part, and the zone offset of its location (0 for UTC).  The text of the   *)
(* layout time.DateTime ("2006-01-02 15:04:05") shows the wall clock of the  *)
(* location to the second and nothing else; it is modelled by the symbol    *)
(* "dt" followed by the wall-clock second count.                            *)
ZeroTime == [sec |-> 0, nsec |-> 0, off |-> 0]

\* t.Format(time.DateTime)
FormatDateTime(t) == <<"dt">> \o FormatNat(t.sec + t.off)

\* The loop over formats with time.Parse: time.DateTime is the first layout,
\* and the only one a text of the model can match.  A text without a zone
\* parses to a UTC time with no fraction.
ParseTime(s) ==
    IF Len(s) >= 2 /\ Head(s) = "dt" /\ AllDigits(Tail(s))
    THEN [err |-> ErrNone, val |-> [sec |-> NatOf(Tail(s), 0), nsec |-> 0, off |-> 0]]
    ELSE [err |-> "cannot convert string to time", val |-> ZeroTime]

----------------------------------------------------------------------------
(* Field types and values.  An integer field holds an integer, a float      *)
(* field its value in hundredths, a string field a text, a bool field a     *)
(* boolean, a time field a time; a sql.Null* field holds [Valid, V].        *)

IntTypes == {"int64", "int32", "int16", "int"}
UintTypes == {"uint64", "uint32", "uint16", "uint"}
FloatTypes == {"float64", "float32"}
NullTypes == {"sql.NullString", "sql.NullInt64", "sql.NullInt32", "sql.NullInt16",
              "sql.NullTime", "sql.NullFloat64", "sql.NullBool"}
WriteDefaultTypes ==
    IntTypes \cup UintTypes \cup FloatTypes \cup NullTypes \cup {"string", "bool", "time.Time"}

\* A field type no converter table knows (a struct of the caller's own).
OtherType == "other"

\* The width reflect's OverflowInt/OverflowUint checks for the field's kind.
BitsOf(tp) ==
    CASE tp \in {"int16", "uint16", "sql.NullInt16"} -> 16
      [] tp \in {"int32", "uint32", "sql.NullInt32"} -> 32
      [] OTHER -> 64

\* The payload type of a sql.Null* wrapper.
PayloadOf(tp) ==
    CASE tp = "sql.NullString" -> "string"
      [] tp = "sql.NullInt64" -> "int64"
      [] tp = "sql.NullInt32" -> "int32"
      [] tp = "sql.NullInt16" -> "int16"
      [] tp = "sql.NullTime" -> "time.Time"
      [] tp = "sql.NullFloat64" -> "float64"
      [] tp = "sql.NullBool" -> "bool"

\* The zero value new(T) gives a field.
RECURSIVE Zero(_)
Zero(tp) ==
    CASE tp \in IntTypes \cup UintTypes \cup FloatTypes -> 0
      [] tp = "string" -> <<>>
      [] tp = "bool" -> FALSE
      [] tp = "time.Time" -> ZeroTime
      [] tp \in NullTypes -> [Valid |-> FALSE, V |-> Zero(PayloadOf(tp))]
      [] OTHER -> "zero"

----------------------------------------------------------------------------
(* buildWriteDefaultConverters: value to text. *)

wr_intConversion(v) == [err |-> ErrNone, s |-> FormatInt(v)]
wr_uintConversion(v) == [err |-> ErrNone, s |-> FormatUint(v)]
wr_floatConversion(v) == [err |-> ErrNone, s |-> FormatFloat(v)]
wr_stringConversion(v) == [err |-> ErrNone, s |-> v]
wr_boolConversion(v) == [err |-> ErrNone, s |-> FormatBool(v)]
wr_timeConversion(v) == [err |-> ErrNone, s |-> FormatDateTime(v)]

wr_sqlNullStringConversion(v) ==
    [err |-> ErrNone, s |-> IF v.Valid THEN v.V ELSE <<>>]
\* A variant that forgets the Valid flag.
wr_sqlNullInt64ConversionAlways(v) == [err |-> ErrNone, s |-> FormatInt(v.V)]

wr_sqlNullInt64Conversion(v) ==
    [err |-> ErrNone, s |-> IF v.Valid THEN FormatInt(v.V) ELSE <<>>]
wr_sqlNullInt32Conversion(v) ==
    [err |-> ErrNone, s |-> IF v.Valid THEN FormatInt(v.V) ELSE <<>>]
wr_sqlNullInt16Conversion(v) ==
    [err |-> ErrNone, s |-> IF v.Valid THEN FormatInt(v.V) ELSE <<>>]
wr_sqlNullTimeConversion(v) ==
    [err |-> ErrNone, s |-> IF v.Valid THEN FormatDateTime(v.V) ELSE <<>>]
wr_sqlNullFloat64Conversion(v) ==
    [err |-> ErrNone, s |-> IF v.Valid THEN FormatFloat(v.V) ELSE <<>>]
wr_sqlNullBoolConversion(v) ==
    [err |-> ErrNone, s |-> IF v.Valid THEN FormatBool(v.V) ELSE <<>>]

\* The call doc.defaultConverters[tp](&f), for tp in the table.
WriteDefault(tp, v) ==
    CASE tp \in IntTypes -> wr_intConversion(v)
      [] tp \in UintTypes -> wr_uintConversion(v)
      [] tp \in FloatTypes -> wr_floatConversion(v)
      [] tp = "string" -> wr_stringConversion(v)
      [] tp = "bool" -> wr_boolConversion(v)
      [] tp = "time.Time" -> wr_timeConversion(v)
      [] tp = "sql.NullString" -> wr_sqlNullStringConversion(v)
      [] tp = "sql.NullInt64" -> wr_sqlNullInt64Conversion(v)
      [] tp = "sql.NullInt32" -> wr_sqlNullInt32Conversion(v)
      [] tp = "sql.NullInt16" -> wr_sqlNullInt16Conversion(v)
      [] tp = "sql.NullTime" -> wr_sqlNullTimeConversion(v)
      [] tp = "sql.NullFloat64" -> wr_sqlNullFloat64Conversion(v)
      [] tp = "sql.NullBool" -> wr_sqlNullBoolConversion(v)

----------------------------------------------------------------------------
(* Read converters: text to field.  A converter gets the cell text s, the   *)
(* field's type tp and the field's present value f, and returns the error   *)
(* and the field's value afterwards (f when it did not set the field).      *)

ErrOverflowConvert == "overflow convert"
ErrEmptyInt == "cannot convert empty string to int*"
ErrEmptyUint == "cannot convert empty string to uint*"
ErrEmptyFloat == "cannot convert empty string to float*"
ErrEmptyBool == "cannot convert empty string to bool"
ErrEmptyTime == "cannot convert empty string to time"
ErrNotTime == "cannot convert string to time"
PanicOverflowFloat == "panic: reflect: call of reflect.Value.OverflowFloat on struct Value"

Ret(e, v) == [err |-> e, val |-> v]

\* The body shared by the integer converters of both tables.
IntBody(s, tp, f) ==
    LET p == ParseInt(s, 64)
    IN IF p.err # ErrNone THEN Ret(p.err, f)
       ELSE IF ~FitsBits(p.val, BitsOf(tp), TRUE) THEN Ret(ErrOverflowConvert, f)
       ELSE Ret(ErrNone, p.val)

UintBody(s, tp, f) ==
    LET p == ParseUint(s, 64)
    IN IF p.err # ErrNone THEN Ret(p.err, f)
       ELSE IF ~FitsBits(p.val, BitsOf(tp), FALSE) THEN Ret(ErrTypeOverflow, f)
       ELSE Ret(ErrNone, p.val)

\* OverflowFloat is false for every float of the model (none exceeds
\* float32's range).
FloatBody(s, tp, f) ==
    LET p == ParseFloat(s)
    IN IF p.err # ErrNone THEN Ret(p.err, f) ELSE Ret(ErrNone, p.val)

NullIntBody(s, tp, f) ==
    LET p == ParseInt(s, BitsOf(tp))
    IN IF p.err # ErrNone THEN Ret(p.err, f)
       ELSE Ret(ErrNone, [Valid |-> TRUE, V |-> p.val])

TimeBody(s, tp, f) ==
    LET p == ParseTime(s)
    IN IF p.err # ErrNone THEN Ret(ErrNotTime, f) ELSE Ret(ErrNone, p.val)

NullTimeBody(s, tp, f) ==
    LET p == ParseTime(s)
    IN IF p.err # ErrNone THEN Ret(ErrNotTime, f)
       ELSE Ret(ErrNone, [Valid |-> TRUE, V |-> p.val])

(* buildReadDefaultConverters (reader.go, first table). *)

rd_intConversion(s, tp, f) ==
    IF s # <<>> THEN IntBody(s, tp, f) ELSE Ret(ErrEmptyInt, f)
rd_sqlNullIntConversion(s, tp, f) ==
    IF s # <<>> THEN NullIntBody(s, tp, f) ELSE Ret(ErrNone, f)
rd_uintConversion(s, tp, f) ==
    IF s # <<>> THEN UintBody(s, tp, f) ELSE Ret(ErrEmptyUint, f)
rd_floatConversion(s, tp, f) ==
    IF s # <<>> THEN FloatBody(s, tp, f) ELSE Ret(ErrEmptyFloat, f)
rd_sqlNullFloat64Conversion(s, tp, f) ==
    IF s # <<>>
    THEN LET p == ParseFloat(s)
         IN IF p.err # ErrNone THEN Ret(p.err, f)
            ELSE Ret(ErrNone, [Valid |-> TRUE, V |-> p.val])
    ELSE Ret(ErrNone, f)
rd_stringConversion(s, tp, f) == Ret(ErrNone, s)
rd_timeConversion(s, tp, f) ==
    IF s # <<>> THEN TimeBody(s, tp, f) ELSE Ret(ErrEmptyTime, f)
rd_boolConversion(s, tp, f) ==
    IF s # <<>> THEN Ret(ErrNone, IsTrueText(ToLower(s))) ELSE Ret(ErrEmptyBool, f)
rd_sqlNullTimeConversion(s, tp, f) ==
    IF s # <<>> THEN NullTimeBody(s, tp, f) ELSE Ret(ErrNone, f)
rd_sqlNullStringConversion(s, tp, f) ==
    IF s # <<>> THEN Ret(ErrNone, [Valid |-> TRUE, V |-> s]) ELSE Ret(ErrNone, f)
rd_sqlNullBoolConversion(s, tp, f) ==
    IF s # <<>> THEN Ret(ErrNone, [Valid |-> TRUE, V |-> IsTrueText(ToLower(s))])
    ELSE Ret(ErrNone, f)

\* The types buildReadDefaultConverters registers.
ReadDefaultTypes == WriteDefaultTypes

\* converts[tp](s, &f) of buildReadDefaultConverters.
ReadDefault(tp, s, f) ==
    CASE tp \in IntTypes -> rd_intConversion(s, tp, f)
      [] tp \in UintTypes -> rd_uintConversion(s, tp, f)
      [] tp \in FloatTypes -> rd_floatConversion(s, tp, f)
      [] tp = "string" -> rd_stringConversion(s, tp, f)
      [] tp = "bool" -> rd_boolConversion(s, tp, f)
      [] tp = "time.Time" -> rd_timeConversion(s, tp, f)
      [] tp = "sql.NullString" -> rd_sqlNullStringConversion(s, tp, f)
      [] tp \in {"sql.NullInt64", "sql.NullInt32", "sql.NullInt16"} ->
            rd_sqlNullIntConversion(s, tp, f)
      [] tp = "sql.NullTime" -> rd_sqlNullTimeConversion(s, tp, f)
      [] tp = "sql.NullFloat64" -> rd_sqlNullFloat64Conversion(s, tp, f)
      [] tp = "sql.NullBool" -> rd_sqlNullBoolConversion(s, tp, f)

(* buildDefaultConverts (reader.go, second table): the table NewFileReader  *)
(* installs.                                                               *)

dc_intConversion(s, tp, f) ==
    IF s # <<>> THEN IntBody(s, tp, f) ELSE Ret(ErrNone, f)
dc_sqlNullIntConversion(s, tp, f) ==
    IF s # <<>> THEN NullIntBody(s, tp, f) ELSE Ret(ErrNone, f)
dc_uintConversion(s, tp, f) ==
    IF s # <<>> THEN UintBody(s, tp, f) ELSE Ret(ErrNone, f)
dc_floatConversion(s, tp, f) ==
    IF s # <<>> THEN FloatBody(s, tp, f) ELSE Ret(ErrNone, f)
\* field.OverflowFloat(val) is called on the sql.NullFloat64 struct field:
\* reflect panics for a Value whose kind is not a float.
dc_sqlNullFloat64Conversion(s, tp, f) ==
    IF s # <<>>
    THEN LET p == ParseFloat(s)
         IN IF p.err # ErrNone THEN Ret(p.err, f) ELSE Ret(PanicOverflowFloat, f)
    ELSE Ret(ErrNone, f)
dc_stringConversion(s, tp, f) == Ret(ErrNone, s)
dc_timeConversion(s, tp, f) ==
    IF s # <<>> THEN TimeBody(s, tp, f) ELSE Ret(ErrNotTime, f)
dc_sqlNullTimeConversion(s, tp, f) ==
    IF s # <<>> THEN NullTimeBody(s, tp, f) ELSE Ret(ErrNone, f)
dc_sqlNullStringConversion(s, tp, f) ==
    IF s # <<>> THEN Ret(ErrNone, [Valid |-> TRUE, V |-> s]) ELSE Ret(ErrNone, f)

\* The types buildDefaultConverts registers: no bool, no sql.NullBool.
DefaultConvertsTypes == WriteDefaultTypes \ {"bool", "sql.NullBool"}

\* converts[tp](s, &f) of buildDefaultConverts, for tp in the table.
DefaultConvert(tp, s, f) ==
    CASE tp \in IntTypes -> dc_intConversion(s, tp, f)
      [] tp \in UintTypes -> dc_uintConversion(s, tp, f)
      [] tp \in FloatTypes -> dc_floatConversion(s, tp, f)
      [] tp = "string" -> dc_stringConversion(s, tp, f)
      [] tp = "time.Time" -> dc_timeConversion(s, tp, f)
      [] tp = "sql.NullString" -> dc_sqlNullStringConversion(s, tp, f)
      [] tp \in {"sql.NullInt64", "sql.NullInt32", "sql.NullInt16"} ->
            dc_sqlNullIntConversion(s, tp, f)
      [] tp = "sql.NullTime" -> dc_sqlNullTimeConversion(s, tp, f)
      [] tp = "sql.NullFloat64" -> dc_sqlNullFloat64Conversion(s, tp, f)

----------------------------------------------------------------------------
(* Specification SpecConv: the default converters applied to field values   *)
(* and to cell texts.                                                      *)

MaxInt == 12
MaxHundredths == 110
MaxStrLen == 2
MaxSec == 2
MaxNsec == 1
MaxOff == 1

TimeVals == [sec : 0..MaxSec, nsec : 0..MaxNsec, off : 0..MaxOff]

RECURSIVE ValuesOf(_)
ValuesOf(tp) ==
    CASE tp \in IntTypes -> (0 - MaxInt)..MaxInt
      [] tp \in UintTypes -> 0..MaxInt
      [] tp \in FloatTypes -> (0 - MaxHundredths)..MaxHundredths
      [] tp = "string" -> SeqsUpTo({"x", "7"}, MaxStrLen)
      [] tp = "bool" -> BOOLEAN
      [] tp = "time.Time" -> TimeVals
      [] tp \in NullTypes -> [Valid : BOOLEAN, V : ValuesOf(PayloadOf(tp))]

\* The cell texts handed to the read converters directly.
CellTexts ==
    {<<>>, <<"7">>, <<"-", "3">>, <<"+", "5">>, <<"x">>, <<"1", ".", "5">>,
     <<"4", "0", "0", "0", "0">>, <<"7", "0", "0", "0", "0">>,
     <<"-", "4", "0", "0", "0", "0">>,
     <<"t", "r", "u", "e">>, <<"T", "R", "U", "E">>, <<"Y", "e", "s">>,
     <<"o", "n">>, <<"y">>, <<"1">>, <<"n", "o">>, <<"f", "a", "l", "s", "e">>,
     <<"dt", "5">>}

\* The lookup in a reader's default table and the call, as FileReader.Read
\* does it: a type the table lacks gives ErrConverterNotFoundForType.
ReadWithTable(table, tp, s, f) ==
    IF table = "buildReadDefaultConverters"
    THEN IF tp \in ReadDefaultTypes THEN ReadDefault(tp, s, f)
         ELSE Ret(ErrConverterNotFoundForType, f)
    ELSE IF tp \in DefaultConvertsTypes THEN DefaultConvert(tp, s, f)
         ELSE Ret(ErrConverterNotFoundForType, f)

ReadTables == {"buildReadDefaultConverters", "buildDefaultConverts"}

ConvInit ==
    /\ cvType \in WriteDefaultTypes
    /\ cvVal \in ValuesOf(cvType)
    /\ cvCell \in CellTexts
    /\ (cvVal = Zero(cvType) \/ cvCell = <<>>)
    /\ cvText = NoText
    /\ cvRead = NoRead
    /\ TagIdle
    /\ ReaderIdle
    /\ WriterIdle

\* The default write converter of the field's type turns the value to text.
ConvWrite ==
    /\ ~cvText.done
    /\ LET w == WriteDefault(cvType, cvVal)
       IN cvText' = [done |-> TRUE, err |-> w.err, s |-> w.s]
    /\ UNCHANGED <<cvType, cvVal, cvCell, cvRead, tagVars, readerVars, writerVars>>

\* The written text is read into the field of a fresh record.
ConvReadBack ==
    /\ cvText.done /\ cvText.err = ErrNone
    /\ cvRead.table = "none"
    /\ \E table \in ReadTables :
         LET r == ReadWithTable(table, cvType, cvText.s, Zero(cvType))
         IN cvRead' = [table |-> table, src |-> "text", err |-> r.err, val |-> r.val]
    /\ UNCHANGED <<cvType, cvVal, cvCell, cvText, tagVars, readerVars, writerVars>>

\* A cell text is read into the field of a fresh record.
ConvReadCell ==
    /\ ~cvText.done
    /\ cvRead.table = "none"
    /\ \E table \in ReadTables :
         LET r == ReadWithTable(table, cvType, cvCell, Zero(cvType))
         IN cvRead' = [table |-> table, src |-> "cell", err |-> r.err, val |-> r.val]
    /\ UNCHANGED <<cvType, cvVal, cvCell, cvText, tagVars, readerVars, writerVars>>

ConvNext == ConvWrite \/ ConvReadBack \/ ConvReadCell

SpecConv == ConvInit /\ [][ConvNext]_vars

----------------------------------------------------------------------------
(* Specification SpecTag: resolution applied to every small struct. *)

MaxFields == 3

\* The tag corpus: every one- and two-segment tag over these segments, and
\* two tags with a third segment.
TagSegs == {<<>>, <<"-">>, <<"a">>, <<"b">>}
Tags ==
    TagSegs
    \cup {r \o <<Comma>> \o w : r \in TagSegs, w \in TagSegs}
    \cup {<<"a", Comma, "b", Comma, "a">>, <<"b", Comma, "a", Comma, "omitempty">>}
Structs == SeqsUpTo(Tags \cup {NoTag}, MaxFields)

TagInit ==
    /\ structTags \in Structs
    /\ tagOut = NoCall
    /\ ConvIdle
    /\ ReaderIdle
    /\ WriterIdle

\* A writer (forWrite) or combined caller resolves the schema.
ResolveTags ==
    /\ tagOut.fn = "none"
    /\ \E forWrite \in BOOLEAN :
         LET r == buildReflectTagIndexCache(structTags, forWrite)
         IN tagOut' = [fn |-> "csvdoc", forWrite |-> forWrite,
                       err |-> r.err, nilMap |-> r.nilMap, map |-> r.map]
    /\ UNCHANGED <<structTags, convVars, readerVars, writerVars>>

\* A reader resolves the schema.
ResolveReadTags ==
    /\ tagOut.fn = "none"
    /\ LET r == buildReflectTagIndexCacheRead(structTags)
       IN tagOut' = [fn |-> "reader", forWrite |-> FALSE,
                     err |-> r.err, nilMap |-> r.nilMap, map |-> r.map]
    /\ UNCHANGED <<structTags, convVars, readerVars, writerVars>>

TagNext == ResolveTags \/ ResolveReadTags

SpecTag == TagInit /\ [][TagNext]_vars

----------------------------------------------------------------------------
(* Header binding on read: buildHeaderNameIndexCache (reader.go). *)

\* The loop over the header cells from cell i on (1-based; the maps store
\* Go's 0-based position), then the check that every struct tag was bound.
RECURSIVE HeaderLoop(_, _, _, _, _)
HeaderLoop(headerLine, tFieldsIndexes, i, nameIndex, indexName) ==
    IF i > Len(headerLine)
    THEN IF \E k \in DOMAIN tFieldsIndexes : k \notin DOMAIN nameIndex
         THEN [err |-> ErrStructTagNotInCSV, nameIndex |-> EmptyMap, indexName |-> EmptyMap]
         ELSE [err |-> ErrNone, nameIndex |-> nameIndex, indexName |-> indexName]
    ELSE LET col == headerLine[i]
         IN IF col \in DOMAIN nameIndex
            THEN [err |-> ErrDuplicateHeaderInCSV,
                  nameIndex |-> EmptyMap, indexName |-> EmptyMap]
            ELSE IF col \in DOMAIN tFieldsIndexes
            THEN HeaderLoop(headerLine, tFieldsIndexes, i + 1,
                            MapPut(nameIndex, col, i - 1), MapPut(indexName, i - 1, col))
            ELSE HeaderLoop(headerLine, tFieldsIndexes, i + 1, nameIndex, indexName)

\* A variant that rejects a header cell that is no struct tag, as the write
\* binder does.
buildHeaderNameIndexCacheStrict(headerLine, tFieldsIndexes) ==
    IF \E i \in 1..Len(headerLine) : headerLine[i] \notin DOMAIN tFieldsIndexes
    THEN [err |-> ErrStructTagNotInCSV, nameIndex |-> EmptyMap, indexName |-> EmptyMap]
    ELSE HeaderLoop(headerLine, tFieldsIndexes, 1, EmptyMap, EmptyMap)

buildHeaderNameIndexCache(headerLine, tFieldsIndexes) ==
    HeaderLoop(headerLine, tFieldsIndexes, 1, EmptyMap, EmptyMap)

----------------------------------------------------------------------------
(* encoding/csv's Reader over the os.File, as FileReader uses it.           *)
(* csv.NewReader wraps the file in a bufio.Reader, which reads ahead: a     *)
(* fill takes up to BufLines whole lines from the file's offset.  The      *)
(* buffer holds line numbers of the file (1 is the first line).             *)

BufLines == 2

ErrEOF == "EOF"
ErrFieldCount == "record on line: wrong number of fields"
ErrFileClosed == "file already closed"

Min(a, b) == IF a < b THEN a ELSE b

\* bufio's fill when the buffer is empty: a read on the file at its offset.
FillBuf(file, h, buf) ==
    IF buf # <<>> THEN [err |-> ErrNone, h |-> h, buf |-> buf]
    ELSE IF ~h.open THEN [err |-> ErrFileClosed, h |-> h, buf |-> buf]
    ELSE IF h.off >= Len(file) THEN [err |-> ErrEOF, h |-> h, buf |-> buf]
    ELSE LET to == Min(h.off + BufLines, Len(file))
         IN [err |-> ErrNone,
             h |-> [h EXCEPT !.off = to],
             buf |-> [k \in 1..(to - h.off) |-> h.off + k]]

\* A variant of cr.Read() that hands out the next line and leaves it in the
\* buffer.
csvReadKeepingLine(file, h, buf, fpr) ==
    LET f == FillBuf(file, h, buf)
    IN IF f.err # ErrNone
       THEN [err |-> f.err, line |-> 0, h |-> f.h, buf |-> f.buf, fpr |-> fpr]
       ELSE [err |-> ErrNone, line |-> Head(f.buf), h |-> f.h, buf |-> f.buf,
             fpr |-> fpr]

\* cr.Read(): the next line of the buffered stream.  FieldsPerRecord is 0
\* at first and is set by the first record; a later record of another
\* length is ErrFieldCount.
csvRead(file, h, buf, fpr) ==
    LET f == FillBuf(file, h, buf)
    IN IF f.err # ErrNone
       THEN [err |-> f.err, line |-> 0, h |-> f.h, buf |-> f.buf, fpr |-> fpr]
       ELSE LET l == Head(f.buf)
                n == Len(file[l])
            IN [err |-> IF fpr # 0 /\ n # fpr THEN ErrFieldCount ELSE ErrNone,
                line |-> l, h |-> f.h, buf |-> Tail(f.buf),
                fpr |-> IF fpr = 0 THEN n ELSE fpr]

\* f.Close(): releases the handle once; closing again is an error.
CloseFile(h) ==
    IF h.open
    THEN [err |-> ErrNone, h |-> [h EXCEPT !.open = FALSE, !.released = @ + 1]]
    ELSE [err |-> ErrFileClosed, h |-> h]

\* f.Seek(0, 0): moves the file's offset; the csv.Reader's buffer is not
\* touched.
SeekStart(h, buf) ==
    IF h.open THEN [err |-> ErrNone, h |-> [h EXCEPT !.off = 0], buf |-> buf]
    ELSE [err |-> ErrFileClosed, h |-> h, buf |-> buf]

----------------------------------------------------------------------------
(* FileReader (filereader.go). *)

\* The converters a caller installs: "mark" sets the field to a value of
\* its own and returns nil, "fail" returns an error and sets nothing.
Handlers == {"mark", "fail"}
ErrCustom == "custom converter failed"

Marked(tp) ==
    CASE tp \in IntTypes \cup UintTypes \cup FloatTypes -> 99
      [] tp = "string" -> <<"custom">>
      [] tp = "bool" -> TRUE
      [] OTHER -> Zero(tp)

CustomRead(handler, s, tp, f) ==
    IF handler = "mark" THEN Ret(ErrNone, Marked(tp)) ELSE Ret(ErrCustom, f)

\* t := new(T)
NewRecord(schema) == [k \in 0..(Len(schema) - 1) |-> Zero(schema[k + 1].tp)]

\* A variant of the dispatch that asks the type's default first.
ReadDispatchDefaultFirst(hrName, tp, v, f, custom) ==
    IF tp \in DefaultConvertsTypes THEN DefaultConvert(tp, v, f)
    ELSE IF hrName \in DOMAIN custom THEN CustomRead(custom[hrName], v, tp, f)
    ELSE Ret(ErrConverterNotFoundForType, f)

\* The converter a bound cell goes through: the column's custom converter
\* if one is installed, else the default of the field's type, else
\* ErrConverterNotFoundForType.
ReadDispatch(hrName, tp, v, f, custom) ==
    IF hrName \in DOMAIN custom THEN CustomRead(custom[hrName], v, tp, f)
    ELSE ReadWithTable("buildDefaultConverts", tp, v, f)

\* A variant of the cell loop that hands back the record filled so far.
ConvFailurePartial(err, t) == [err |-> err, nilRec |-> FALSE, rec |-> t]

\* return nil, err
ConvFailure(err, t) == [err |-> err, nilRec |-> TRUE, rec |-> <<>>]

\* The loop `for i, v := range line` of Read from cell i on (1-based).
RECURSIVE ReadCells(_, _, _, _, _, _)
ReadCells(line, i, t, schema, maps, custom) ==
    IF i > Len(line) THEN [err |-> ErrNone, nilRec |-> FALSE, rec |-> t]
    ELSE IF (i - 1) \notin DOMAIN maps.indexHeader
    THEN ReadCells(line, i + 1, t, schema, maps, custom)
    ELSE LET hrName == maps.indexHeader[i - 1]
             tagFieldIndex == maps.reflectIndexes[hrName]
             tp == schema[tagFieldIndex + 1].tp
             r == ReadDispatch(hrName, tp, line[i], t[tagFieldIndex], custom)
         IN IF r.err # ErrNone THEN ConvFailure(r.err, t)
            ELSE ReadCells(line, i + 1, [t EXCEPT ![tagFieldIndex] = r.val],
                           schema, maps, custom)

TagsOf(schema) == [k \in 1..Len(schema) |-> schema[k].tag]

\* NewFileReader: the reader's state after the call and the error returned.
NewFileReaderResult(schema, file) ==
    LET fi == buildReflectTagIndexCacheRead(TagsOf(schema))
        opened == [open |-> TRUE, off |-> 0, opened |-> 1, released |-> 0]
        hd == csvRead(file, opened, <<>>, 0)
    IN IF fi.err # ErrNone
       THEN [err |-> fi.err, h |-> NoHandle, buf |-> <<>>, fpr |-> 0, maps |-> NoMaps]
       ELSE IF hd.err # ErrNone
       THEN [err |-> hd.err, h |-> CloseFile(hd.h).h, buf |-> hd.buf, fpr |-> hd.fpr,
             maps |-> NoMaps]
       ELSE LET hn == buildHeaderNameIndexCache(file[hd.line], fi.map)
            IN IF hn.err # ErrNone
               THEN [err |-> hn.err, h |-> CloseFile(hd.h).h, buf |-> hd.buf,
                     fpr |-> hd.fpr, maps |-> NoMaps]
               ELSE [err |-> ErrNone, h |-> hd.h, buf |-> hd.buf, fpr |-> hd.fpr,
                     maps |-> [reflectIndexes |-> fi.map, headerIndex |-> hn.nameIndex,
                               indexHeader |-> hn.indexName]]

MaxCalls == 5

\* NewFileReader[T](fp)
NewFileReader ==
    /\ rState = "new"
    /\ LET r == NewFileReaderResult(rSchema, rFile)
       IN /\ rState' = IF r.err = ErrNone THEN "open" ELSE "failed"
          /\ rHandle' = r.h
          /\ rBuf' = r.buf
          /\ rFieldsPerRecord' = r.fpr
          /\ rMaps' = r.maps
          /\ rRet' = [NoRet EXCEPT !.op = "NewFileReader", !.err = r.err]
    /\ rCustom' = EmptyMap
    /\ UNCHANGED <<rSchema, rFile, rSince, rCalls, tagVars, convVars, writerVars>>

\* fr.Read()
Read ==
    /\ rState = "open"
    /\ rCalls < MaxCalls
    /\ rCalls' = rCalls + 1
    /\ rSince' = IF rSince >= 0 THEN rSince + 1 ELSE rSince
    /\ LET c == csvRead(rFile, rHandle, rBuf, rFieldsPerRecord)
       IN /\ rBuf' = c.buf
          /\ rFieldsPerRecord' = c.fpr
          /\ IF c.err # ErrNone
             THEN /\ rHandle' = CloseFile(c.h).h
                  /\ rRet' = [NoRet EXCEPT !.op = "Read", !.err = c.err,
                                           !.stage = "line", !.line = c.line]
             ELSE LET r == ReadCells(rFile[c.line], 1, NewRecord(rSchema),
                                     rSchema, rMaps, rCustom)
                  IN /\ rHandle' = c.h
                     /\ rRet' = [op |-> "Read", arg |-> <<>>, err |-> r.err,
                                 stage |-> IF r.err = ErrNone THEN "none" ELSE "cell",
                                 nilRec |-> r.nilRec, rec |-> r.rec, line |-> c.line]
    /\ UNCHANGED <<rSchema, rFile, rState, rMaps, rCustom, tagVars, convVars, writerVars>>

\* fr.Reset()
Reset ==
    /\ rState = "open"
    /\ rCalls < MaxCalls
    /\ rCalls' = rCalls + 1
    /\ LET sk == SeekStart(rHandle, rBuf)
           c == csvRead(rFile, sk.h, sk.buf, rFieldsPerRecord)
       IN IF sk.err # ErrNone
          THEN /\ rRet' = [NoRet EXCEPT !.op = "Reset", !.err = sk.err]
               /\ UNCHANGED <<rHandle, rBuf, rFieldsPerRecord, rSince>>
          ELSE /\ rHandle' = c.h
               /\ rBuf' = c.buf
               /\ rFieldsPerRecord' = c.fpr
               /\ rRet' = [NoRet EXCEPT !.op = "Reset", !.err = c.err, !.line = c.line]
               /\ rSince' = IF c.err = ErrNone THEN 0 ELSE 0 - 2
    /\ UNCHANGED <<rSchema, rFile, rState, rMaps, rCustom, tagVars, convVars, writerVars>>

\* The errors of a Read whose line could not be taken: the end of the input,
\* or csv.Reader's error for a line of another length.
LineErrors == {ErrEOF, ErrFieldCount}

\* fr.Close().  The record of the call keeps, as arg, the error of the Read
\* that ended the reading when the call comes right after that Read.
Close ==
    /\ rState = "open"
    /\ rCalls < MaxCalls
    /\ rCalls' = rCalls + 1
    /\ LET c == CloseFile(rHandle)
       IN /\ rHandle' = c.h
          /\ rRet' = [NoRet EXCEPT !.op = "Close",
                                   !.arg = IF rRet.op = "Read" /\ rRet.err \in LineErrors
                                           THEN <<rRet.err>> ELSE <<>>,
                                   !.err = c.err]
    /\ UNCHANGED <<rSchema, rFile, rState, rBuf, rFieldsPerRecord, rMaps, rCustom,
                   rSince, tagVars, convVars, writerVars>>

\* A variant of AddConvertor without the header check.
AddConvertorResultUnchecked(header, handler, maps, custom) ==
    [err |-> ErrNone, custom |-> MapPut(custom, header, handler)]

AddConvertorResult(header, handler, maps, custom) ==
    IF header \notin DOMAIN maps.headerIndex
    THEN [err |-> ErrNotFoundHeaderInCSV, custom |-> custom]
    ELSE [err |-> ErrNone, custom |-> MapPut(custom, header, handler)]

\* The column names callers pass to AddConvertor and RemoveConvertor.
OverrideNames == {<<"id">>, <<"nosuch">>}

\* fr.AddConvertor(header, handler)
AddConvertor ==
    /\ rState = "open"
    /\ \E header \in OverrideNames, handler \in Handlers :
         LET r == AddConvertorResult(header, handler, rMaps, rCustom)
         IN /\ rCustom' = r.custom
            /\ rRet' = [NoRet EXCEPT !.op = "AddConvertor", !.arg = header, !.err = r.err]
    /\ UNCHANGED <<rSchema, rFile, rState, rHandle, rBuf, rFieldsPerRecord, rMaps,
                   rSince, rCalls, tagVars, convVars, writerVars>>

\* fr.RemoveConvertor(header)
RemoveConvertor ==
    /\ rState = "open"
    /\ \E header \in OverrideNames :
         /\ rCustom' = MapDelete(rCustom, header)
         /\ rRet' = [NoRet EXCEPT !.op = "RemoveConvertor", !.arg = header]
    /\ UNCHANGED <<rSchema, rFile, rState, rHandle, rBuf, rFieldsPerRecord, rMaps,
                   rSince, rCalls, tagVars, convVars, writerVars>>

----------------------------------------------------------------------------
(* Specification SpecReader: a reader over every small file. *)

MaxRows == 2

IDName == <<[tag |-> <<"id">>, tp |-> "int64"], [tag |-> <<"name">>, tp |-> "string"]>>
\* Like testdata.ExampleMods: an untagged field, a write-only field, a field
\* with separate read and write names.
Mods == <<[tag |-> NoTag, tp |-> "string"],
          [tag |-> <<"id", Comma, "ident">>, tp |-> "int64"],
          [tag |-> <<"-", Comma, "errors">>, tp |-> "string"]>>
IDFlag == <<[tag |-> <<"id">>, tp |-> "int64"], [tag |-> <<"name">>, tp |-> "bool"]>>
TwiceID == <<[tag |-> <<"id">>, tp |-> "int64"], [tag |-> <<"id">>, tp |-> "string"]>>
ReaderSchemas == {IDName, Mods, IDFlag, TwiceID}

HeaderLines ==
    {<<<<"id">>, <<"name">>, <<"extra">>>>,
     <<<<"name">>, <<"extra">>, <<"id">>>>,
     <<<<"id">>, <<"extra">>, <<"other">>>>,
     <<<<"id">>, <<"name">>, <<"id">>>>,
     <<<<"extra">>, <<"id">>, <<"extra">>>>}

\* A row that converts under the header id,name,extra; a row whose first
\* cell is no number and whose last cell is empty; a row that is one cell
\* short.
DataRows ==
    {<<<<"7">>, <<"alice">>, <<"ignored">>>>,
     <<<<"x">>, <<"carol">>, <<>>>>,
     <<<<"9">>, <<"dave">>>>}

Files == {<<>>} \cup {<<h>> \o rows : h \in HeaderLines, rows \in SeqsUpTo(DataRows, MaxRows)}

ReaderInit ==
    /\ rSchema \in ReaderSchemas
    /\ rFile \in Files
    /\ rState = "new"
    /\ rHandle = NoHandle
    /\ rBuf = <<>>
    /\ rFieldsPerRecord = 0
    /\ rMaps = NoMaps
    /\ rCustom = EmptyMap
    /\ rRet = NoRet
    /\ rSince = 0 - 1
    /\ rCalls = 0
    /\ TagIdle
    /\ ConvIdle
    /\ WriterIdle

ReaderNext ==
    \/ NewFileReader
    \/ Read
    \/ Reset
    \/ Close
    \/ AddConvertor
    \/ RemoveConvertor

SpecReader == ReaderInit /\ [][ReaderNext]_vars

----------------------------------------------------------------------------
(* Header binding on write: buildWriteHeaderNameIndexCache (writer.go). *)

\* The loop `for i, col := range headerLine` from cell i on (1-based).
RECURSIVE WriteHeaderLoop(_, _, _, _, _)
WriteHeaderLoop(headerLine, tFieldsIndexes, i, nameIndex, indexName) ==
    IF i > Len(headerLine)
    THEN [err |-> ErrNone, nameIndex |-> nameIndex, indexName |-> indexName]
    ELSE LET col == headerLine[i]
         IN IF col \in DOMAIN nameIndex
            THEN [err |-> ErrDuplicateHeaderInCSV, nameIndex |-> EmptyMap, indexName |-> EmptyMap]
            ELSE IF col \in DOMAIN tFieldsIndexes
            THEN WriteHeaderLoop(headerLine, tFieldsIndexes, i + 1,
                                 MapPut(nameIndex, col, i - 1), MapPut(indexName, i - 1, col))
            ELSE [err |-> ErrStructTagNotInCSV, nameIndex |-> EmptyMap, indexName |-> EmptyMap]

\* A variant that passes over a requested name that is no struct tag.
buildWriteHeaderNameIndexCacheSkipping(headerLine, tFieldsIndexes) ==
    WriteHeaderLoop(SelectSeq(headerLine, LAMBDA col : col \in DOMAIN tFieldsIndexes),
                    tFieldsIndexes, 1, EmptyMap, EmptyMap)

buildWriteHeaderNameIndexCache(headerLine, tFieldsIndexes) ==
    WriteHeaderLoop(headerLine, tFieldsIndexes, 1, EmptyMap, EmptyMap)

----------------------------------------------------------------------------
(* encoding/csv's Writer over the os.File, as FileWriter uses it.  A line    *)
(* goes into the bufio.Writer token by token: a field, the delimiter before  *)
(* every field but the first, and the line end.                              *)

EOL == <<"\n">>
Junk == <<"NUL">>
ErrInvalidDelim == "csv: invalid field or comment delimiter"

\* csv's validDelim: the quote, CR, LF and the zero rune are no delimiters.
ValidDelim(r) == r \notin {"\"", "\r", "\n", "NUL"}

\* csv's fieldNeedsQuotes, for the symbols that occur.
fieldNeedsQuotes(field, comma) ==
    \E i \in 1..Len(field) : field[i] \in {comma, "\"", "\r", "\n"}

RECURSIVE DoubleQuotes(_)
DoubleQuotes(field) ==
    IF field = <<>> THEN <<>>
    ELSE (IF Head(field) = "\"" THEN <<"\"", "\"">> ELSE <<Head(field)>>)
         \o DoubleQuotes(Tail(field))

csvField(field, comma) ==
    IF fieldNeedsQuotes(field, comma)
    THEN <<"\"">> \o DoubleQuotes(field) \o <<"\"">>
    ELSE field

\* The tokens of one line, in the order csv.Writer.Write hands them on.
RECURSIVE FieldTokens(_, _, _)
FieldTokens(record, comma, n) ==
    IF n > Len(record) THEN <<>>
    ELSE (IF n > 1 THEN <<<<comma>>>> ELSE <<>>)
         \o <<csvField(record[n], comma)>>
         \o FieldTokens(record, comma, n + 1)

LineTokens(record, comma) == FieldTokens(record, comma, 1) \o <<EOL>>

\* cw.Write(record) in one piece, as a single goroutine sees it.  berr is
\* the bufio.Writer's sticky error: once a flush has failed every write
\* returns it.
csvWrite(record, comma, buf, berr) ==
    IF ~ValidDelim(comma) THEN [err |-> ErrInvalidDelim, buf |-> buf]
    ELSE IF berr # ErrNone THEN [err |-> berr, buf |-> buf]
    ELSE [err |-> ErrNone, buf |-> buf \o LineTokens(record, comma)]

----------------------------------------------------------------------------
(* FileWriter (filewriter.go). *)

ErrOpenFile == "open: permission denied"
PanicIndexOutOfRange == "panic: index out of range"
PanicNilConverter == "panic: call of nil func"

\* The loop that fills opts.outputHeader when the caller gave none:
\* outputHeader[v] = i for every name i of field index v.
DefaultHeader(reflectIndexes) ==
    LET n == Cardinality(DOMAIN reflectIndexes)
    IN IF \E name \in DOMAIN reflectIndexes : reflectIndexes[name] >= n
       THEN [err |-> PanicIndexOutOfRange, names |-> <<>>]
       ELSE [err |-> ErrNone,
             names |-> [i \in 1..n |->
                           CHOOSE name \in DOMAIN reflectIndexes :
                               reflectIndexes[name] = i - 1]]

\* The file the call opened and never closed.
OpenedFile == [open |-> TRUE, opened |-> 1, released |-> 0]
ClosedFile == [open |-> FALSE, opened |-> 1, released |-> 1]

\* NewFileWriter: the writer's state after the call and the error returned.
\* args is what the options leave in opts, and whether os.OpenFile succeeds.
NewFileWriterResult(schema, args) ==
    LET fi == buildReflectTagIndexCache(TagsOf(schema), TRUE)
        given == [writeHeader |-> args.writeHeader, escapeRune |-> args.escapeRune,
                  outputHeader |-> args.outputHeader]
    IN IF ~args.openOk
       THEN [err |-> ErrOpenFile, h |-> NoFile, opts |-> NoOpts, maps |-> NoMaps]
       ELSE IF fi.err # ErrNone
       THEN [err |-> fi.err, h |-> OpenedFile, opts |-> given, maps |-> NoMaps]
       ELSE IF /\ args.outputHeader.set
               /\ Len(args.outputHeader.names) > Cardinality(DOMAIN fi.map)
       THEN [err |-> ErrToFewStructTags, h |-> OpenedFile, opts |-> given, maps |-> NoMaps]
       ELSE LET dh == IF args.outputHeader.set
                      THEN [err |-> ErrNone, names |-> args.outputHeader.names]
                      ELSE DefaultHeader(fi.map)
                opts == [given EXCEPT !.outputHeader = [set |-> TRUE, names |-> dh.names]]
                hn == buildWriteHeaderNameIndexCache(dh.names, fi.map)
            IN IF dh.err # ErrNone
               THEN [err |-> dh.err, h |-> OpenedFile, opts |-> given, maps |-> NoMaps]
               ELSE IF hn.err # ErrNone
               THEN [err |-> hn.err, h |-> ClosedFile, opts |-> opts, maps |-> NoMaps]
               ELSE [err |-> ErrNone, h |-> OpenedFile, opts |-> opts,
                     maps |-> [reflectIndexes |-> fi.map, headerIndex |-> hn.nameIndex,
                               indexHeader |-> hn.indexName]]

\* A custom write converter: "mark" returns a text of its own, "fail" an error.
CustomWrite(handler, v) ==
    IF handler = "mark" THEN [err |-> ErrNone, s |-> <<"custom">>]
    ELSE [err |-> ErrCustom, s |-> <<>>]

\* The converter a field goes through: the custom converter of its name if
\* one is installed, else the default of its type; the table returns a nil
\* func for a type it does not hold, and the call panics.
WriteDispatch(fieldName, tp, v, custom) ==
    IF fieldName \in DOMAIN custom THEN CustomWrite(custom[fieldName], v)
    ELSE IF tp \in WriteDefaultTypes THEN WriteDefault(tp, v)
    ELSE [err |-> PanicNilConverter, s |-> <<>>]

\* A variant of the loop that puts each value at its field's declaration
\* index.
BuildRowDeclarationOrder(tm, schema, opts, maps, custom) ==
    LET names == (DOMAIN maps.reflectIndexes) \cap (DOMAIN maps.headerIndex)
        out(n) == WriteDispatch(n, schema[maps.reflectIndexes[n] + 1].tp,
                                tm[maps.reflectIndexes[n]], custom)
        bad == {n \in names : out(n).err # ErrNone}
    IN IF bad = {}
       THEN {[err |-> ErrNone,
              row |-> [i \in 1..Len(opts.outputHeader.names) |->
                          IF \E n \in names : maps.reflectIndexes[n] = i - 1
                          THEN out(CHOOSE n \in names : maps.reflectIndexes[n] = i - 1).s
                          ELSE <<>>]]}
       ELSE {[err |-> out(n).err, row |-> <<>>] : n \in bad}

\* The loop `for fieldName, fieldIndex := range doc.reflectIndexes` of Write.
\* The map is ranged over in any order, so when several fields fail any of
\* them may be the one whose error is returned.
BuildRow(tm, schema, opts, maps, custom) ==
    LET names == (DOMAIN maps.reflectIndexes) \cap (DOMAIN maps.headerIndex)
        out(n) == WriteDispatch(n, schema[maps.reflectIndexes[n] + 1].tp,
                                tm[maps.reflectIndexes[n]], custom)
        bad == {n \in names : out(n).err # ErrNone}
    IN IF bad = {}
       THEN {[err |-> ErrNone,
              row |-> [i \in 1..Len(opts.outputHeader.names) |->
                          IF \E n \in names : maps.headerIndex[n] = i - 1
                          THEN out(CHOOSE n \in names : maps.headerIndex[n] = i - 1).s
                          ELSE <<>>]]}
       ELSE {[err |-> out(n).err, row |-> <<>>] : n \in bad}

\* A variant of the header part that writes no header.
HeaderWriteDeferred(opts, has, buf, berr) ==
    [err |-> ErrNone, buf |-> buf, has |-> has]

\* A variant of the header part that does not look at hasWrittenHeaders.
HeaderWriteEveryCall(opts, has, buf, berr) ==
    IF opts.writeHeader
    THEN LET w == csvWrite(opts.outputHeader.names, opts.escapeRune, buf, berr)
         IN [err |-> w.err, buf |-> w.buf, has |-> (w.err = ErrNone)]
    ELSE [err |-> ErrNone, buf |-> buf, has |-> has]

\* The header part of Write, between Lock and Unlock.
HeaderWrite(opts, has, buf, berr) ==
    IF ~has /\ opts.writeHeader
    THEN LET w == csvWrite(opts.outputHeader.names, opts.escapeRune, buf, berr)
         IN [err |-> w.err, buf |-> w.buf, has |-> (w.err = ErrNone)]
    ELSE [err |-> ErrNone, buf |-> buf, has |-> has]

MaxWrites == 3
MaxRecords == 2

\* The j-th value a caller puts in a field of type tp.
WValue(tp, j) ==
    CASE tp \in IntTypes \cup UintTypes -> 6 + j
      [] tp = "string" -> (CASE j = 1 -> <<"alice">>
                             [] j = 2 -> <<"b", Comma, "c">>
                             [] OTHER -> <<"x">> \o FormatNat(j))
      [] OTHER -> Zero(tp)

WRecords(schema) ==
    {[k \in 0..(Len(schema) - 1) |-> WValue(schema[k + 1].tp, j)] : j \in 1..MaxRecords}

OneID == <<[tag |-> <<"id">>, tp |-> "int64"]>>
IDBlob == <<[tag |-> <<"id">>, tp |-> "int64"], [tag |-> <<"blob">>, tp |-> OtherType]>>
WriterSchemas == {OneID, IDName, Mods, TwiceID, IDBlob}

NilHeader == [set |-> FALSE, names |-> <<>>]
Header(names) == [set |-> TRUE, names |-> names]
WriterHeaders ==
    {NilHeader,
     Header(<<<<"name">>, <<"id">>>>),
     Header(<<<<"id">>>>),
     Header(<<<<"id">>, <<"id">>>>),
     Header(<<<<"id">>, <<"nosuch">>>>),
     Header(<<<<"id">>, <<"name">>, <<"extra">>>>)}
EscapeRunes == {Comma, "\""}
WriterArgs == [openOk : BOOLEAN, writeHeader : BOOLEAN, escapeRune : EscapeRunes,
               outputHeader : WriterHeaders]

\* NewFileWriter[T](fp, opts...)
NewFileWriter ==
    /\ wState = "new"
    /\ \E schema \in WriterSchemas, args \in WriterArgs :
         LET r == NewFileWriterResult(schema, args)
         IN /\ wSchema' = schema
            /\ wState' = IF r.err = ErrNone THEN "open" ELSE "failed"
            /\ wOpts' = r.opts
            /\ wMaps' = r.maps
            /\ wHandle' = r.h
            /\ wRet' = [NoWRet EXCEPT !.op = "NewFileWriter", !.arg = args, !.err = r.err]
    /\ UNCHANGED <<wCustom, hasWrittenHeaders, hasWrittenHeaderMux, wBuf, wN, wDisk, wErr,
                   wWritten, wCalls, goroutineVars, tagVars, convVars, readerVars>>

\* doc.Write(tm), called by one goroutine when no other call is under way.
\* A call that finds the mutex held never returns.
Write ==
    /\ wState = "open"
    /\ wRet.returned
    /\ wCalls < MaxWrites
    /\ wCalls' = wCalls + 1
    /\ \E tm \in WRecords(wSchema) :
         IF hasWrittenHeaderMux # 0
         THEN /\ wRet' = [NoWRet EXCEPT !.op = "Write", !.arg = tm, !.returned = FALSE]
              /\ UNCHANGED <<hasWrittenHeaders, hasWrittenHeaderMux, wBuf, wN, wWritten>>
         ELSE LET hw == HeaderWrite(wOpts, hasWrittenHeaders, wBuf, wErr)
              IN IF hw.err # ErrNone
                 THEN /\ hasWrittenHeaderMux' = 1
                      /\ wRet' = [NoWRet EXCEPT !.op = "Write", !.arg = tm,
                                                 !.err = hw.err]
                      /\ UNCHANGED <<hasWrittenHeaders, wBuf, wN, wWritten>>
                 ELSE \E o \in BuildRow(tm, wSchema, wOpts, wMaps, wCustom) :
                        LET w == IF o.err # ErrNone
                                 THEN [err |-> o.err, buf |-> hw.buf]
                                 ELSE csvWrite(o.row, wOpts.escapeRune, hw.buf, wErr)
                        IN /\ hasWrittenHeaders' = hw.has
                           /\ hasWrittenHeaderMux' = 0
                           /\ wBuf' = w.buf
                           /\ wN' = Len(w.buf)
                           /\ wRet' = [NoWRet EXCEPT !.op = "Write", !.arg = tm,
                                                      !.err = w.err]
                           /\ wWritten' = IF w.err = ErrNone
                                          THEN Append(wWritten, o.row) ELSE wWritten
    /\ UNCHANGED <<wSchema, wState, wOpts, wMaps, wCustom, wHandle, wDisk, wErr,
                   goroutineVars, tagVars, convVars, readerVars>>

ErrWriteFile == "write: no space left on device"
ErrCloseFile == "close: input/output error"

\* doc.Close(): cw.Flush(), which returns nothing, then f.Close(), whose
\* error is the one returned.  Flush writes the buffer to the file unless
\* the buffer is empty or an earlier flush has failed; flushOk and closeOk
\* say whether the file system lets the write and the close succeed.
FileWriterCloseResult(h, buf, disk, berr, flushOk, closeOk) ==
    LET writes == buf # <<>> /\ berr = ErrNone
        fails == writes /\ (~h.open \/ ~flushOk)
        flushed == writes /\ ~fails
        ferr == IF ~fails THEN berr ELSE IF ~h.open THEN ErrFileClosed ELSE ErrWriteFile
        cerr == IF ~h.open THEN ErrFileClosed ELSE IF closeOk THEN ErrNone ELSE ErrCloseFile
    IN [err |-> cerr,
        h |-> IF h.open THEN [h EXCEPT !.open = FALSE, !.released = @ + 1] ELSE h,
        buf |-> IF flushed THEN <<>> ELSE buf,
        disk |-> IF flushed THEN disk \o buf ELSE disk,
        berr |-> ferr]

FileWriterClose ==
    /\ wState = "open"
    /\ wRet.returned
    /\ wCalls < MaxWrites
    /\ wCalls' = wCalls + 1
    /\ \E flushOk \in BOOLEAN, closeOk \in BOOLEAN :
         LET r == FileWriterCloseResult(wHandle, wBuf, wDisk, wErr, flushOk, closeOk)
         IN /\ wDisk' = r.disk
            /\ wBuf' = r.buf
            /\ wN' = Len(r.buf)
            /\ wErr' = r.berr
            /\ wHandle' = r.h
            /\ wRet' = [NoWRet EXCEPT !.op = "Close", !.err = r.err]
    /\ UNCHANGED <<wSchema, wState, wOpts, wMaps, wCustom, hasWrittenHeaders,
                   hasWrittenHeaderMux, wWritten, goroutineVars,
                   tagVars, convVars, readerVars>>

\* doc.AddConverter(header, handler)
AddConverterResult(header, handler, maps, custom) ==
    [err |-> ErrNone, custom |-> MapPut(custom, header, handler)]

WOverrideNames == {<<"id">>, <<"nosuch">>}

AddConverter ==
    /\ wState = "open"
    /\ wRet.returned
    /\ \E header \in WOverrideNames, handler \in Handlers :
         LET r == AddConverterResult(header, handler, wMaps, wCustom)
         IN /\ wCustom' = r.custom
            /\ wRet' = [NoWRet EXCEPT !.op = "AddConverter", !.arg = header, !.err = r.err]
    /\ UNCHANGED <<wSchema, wState, wOpts, wMaps, hasWrittenHeaders, hasWrittenHeaderMux,
                   wHandle, wBuf, wN, wDisk, wErr, wWritten, wCalls, goroutineVars,
                   tagVars, convVars, readerVars>>

\* doc.RemoveConverter(header)
RemoveConverter ==
    /\ wState = "open"
    /\ wRet.returned
    /\ \E header \in WOverrideNames :
         /\ wCustom' = MapDelete(wCustom, header)
         /\ wRet' = [NoWRet EXCEPT !.op = "RemoveConverter", !.arg = header]
    /\ UNCHANGED <<wSchema, wState, wOpts, wMaps, hasWrittenHeaders, hasWrittenHeaderMux,
                   wHandle, wBuf, wN, wDisk, wErr, wWritten, wCalls, goroutineVars,
                   tagVars, convVars, readerVars>>

----------------------------------------------------------------------------
(* Specification SpecWriter: one goroutine using a writer. *)

WriterInit ==
    /\ WriterIdle
    /\ TagIdle
    /\ ConvIdle
    /\ ReaderIdle

WriterNext ==
    \/ NewFileWriter
    \/ Write
    \/ FileWriterClose
    \/ AddConverter
    \/ RemoveConverter

SpecWriter == WriterInit /\ [][WriterNext]_vars

----------------------------------------------------------------------------
(* Specification SpecDispatch: a program that uses either a reader, over   *)
(* the files of at most one data row, or a writer.                          *)

DispatchInit ==
    \/ ReaderInit /\ Len(rFile) <= 2
    \/ WriterInit

DispatchNext ==
    \/ rSchema # <<>> /\ ReaderNext
    \/ rSchema = <<>> /\ WriterNext

SpecDispatch == DispatchInit /\ [][DispatchNext]_vars

----------------------------------------------------------------------------
(* Specification SpecConcurrent: goroutines calling Write on one writer at   *)
(* the same time.  Write holds hasWrittenHeaderMux for the header part only; *)
(* the row goes to the csv.Writer outside it.  bufio.Writer copies a token   *)
(* to buf[n:] and then adds its length to n, with no synchronisation: two    *)
(* goroutines may load the same n, and the n stored last wins.               *)

NThreads == 2
Threads == 1..NThreads

ConcSchemas == {OneID, IDName}
ConcArgs == [openOk : {TRUE}, writeHeader : BOOLEAN, escapeRune : EscapeRunes,
             outputHeader : {NilHeader}]

ConcInit ==
    /\ wSchema \in ConcSchemas
    /\ \E args \in ConcArgs :
         LET r == NewFileWriterResult(wSchema, args)
         IN /\ wOpts = r.opts
            /\ wMaps = r.maps
            /\ wHandle = r.h
    /\ wState = "open"
    /\ wCustom = EmptyMap
    /\ hasWrittenHeaders = FALSE
    /\ hasWrittenHeaderMux = 0
    /\ wBuf = <<>>
    /\ wN = 0
    /\ wDisk = <<>>
    /\ wErr = ErrNone
    /\ wRet = [NoWRet EXCEPT !.op = "NewFileWriter"]
    /\ wWritten = <<>>
    /\ wCalls = 0
    /\ tPc = [t \in Threads |-> "idle"]
    /\ tRec = [t \in Threads |-> <<>>]
    /\ tRow = [t \in Threads |-> <<>>]
    /\ tN = [t \in Threads |-> 0]
    /\ tErr = [t \in Threads |-> ErrNone]
    /\ TagIdle
    /\ ConvIdle
    /\ ReaderIdle

\* Goroutine t calls doc.Write(tm).
WriteCall(t) ==
    /\ tPc[t] = "idle"
    /\ \E tm \in WRecords(wSchema) : tRec' = [tRec EXCEPT ![t] = tm]
    /\ tPc' = [tPc EXCEPT ![t] = "lock"]
    /\ UNCHANGED <<fileWriterVars, tRow, tN, tErr, tagVars, convVars, readerVars>>

\* doc.hasWrittenHeaderMux.Lock()
WriteLock(t) ==
    /\ tPc[t] = "lock"
    /\ hasWrittenHeaderMux = 0
    /\ hasWrittenHeaderMux' = t
    /\ tPc' = [tPc EXCEPT ![t] = "header"]
    /\ UNCHANGED <<wSchema, wState, wOpts, wMaps, wCustom, hasWrittenHeaders, wHandle,
                   wBuf, wN, wDisk, wErr, wRet, wWritten, wCalls,
                   tRec, tRow, tN, tErr, tagVars, convVars, readerVars>>

\* The header part: on an error of cw.Write the call returns, else Unlock().
WriteHeader(t) ==
    /\ tPc[t] = "header"
    /\ LET hw == HeaderWrite(wOpts, hasWrittenHeaders, SubSeq(wBuf, 1, wN), wErr)
       IN IF hw.err # ErrNone
          THEN /\ tPc' = [tPc EXCEPT ![t] = "done"]
               /\ tErr' = [tErr EXCEPT ![t] = hw.err]
               /\ UNCHANGED <<hasWrittenHeaders, hasWrittenHeaderMux, wBuf, wN>>
          ELSE /\ hasWrittenHeaders' = hw.has
               /\ IF hw.has = hasWrittenHeaders
                  THEN UNCHANGED <<wBuf, wN>>
                  ELSE wBuf' = hw.buf /\ wN' = Len(hw.buf)
               /\ hasWrittenHeaderMux' = 0
               /\ tPc' = [tPc EXCEPT ![t] = "convert"]
               /\ UNCHANGED tErr
    /\ UNCHANGED <<wSchema, wState, wOpts, wMaps, wCustom, wHandle, wDisk, wErr, wRet,
                   wWritten, wCalls, tRec, tRow, tN, tagVars, convVars, readerVars>>

\* The field loop, and the delimiter check at the head of cw.Write(row).
WriteConvert(t) ==
    /\ tPc[t] = "convert"
    /\ \E o \in BuildRow(tRec[t], wSchema, wOpts, wMaps, wCustom) :
         LET err == IF o.err # ErrNone THEN o.err
                    ELSE csvWrite(o.row, wOpts.escapeRune, <<>>, wErr).err
         IN IF err # ErrNone
            THEN /\ tPc' = [tPc EXCEPT ![t] = "done"]
                 /\ tErr' = [tErr EXCEPT ![t] = err]
                 /\ UNCHANGED tRow
            ELSE /\ tPc' = [tPc EXCEPT ![t] = "load"]
                 /\ tRow' = [tRow EXCEPT ![t] = LineTokens(o.row, wOpts.escapeRune)]
                 /\ UNCHANGED tErr
    /\ UNCHANGED <<fileWriterVars, tRec, tN, tagVars, convVars, readerVars>>

\* bufio.Writer: goroutine t loads n to find where its next token goes.
WriteLoad(t) ==
    /\ tPc[t] = "load"
    /\ tN' = [tN EXCEPT ![t] = wN]
    /\ tPc' = [tPc EXCEPT ![t] = "store"]
    /\ UNCHANGED <<fileWriterVars, tRec, tRow, tErr, tagVars, convVars, readerVars>>

\* bufio.Writer: goroutine t copies the token to buf[n:] for the n it loaded
\* and stores n plus the token's length, n being either the one it loaded
\* or the present one.  Bytes of buf no token was copied to are Junk.
WriteStore(t) ==
    /\ tPc[t] = "store"
    /\ LET p == tN[t] + 1
           tok == Head(tRow[t])
           put == IF p > Len(wBuf) THEN Append(wBuf, tok) ELSE [wBuf EXCEPT ![p] = tok]
       IN \E n \in {p, wN + 1} :
            /\ wN' = n
            /\ wBuf' = IF n > Len(put) THEN Append(put, Junk) ELSE put
    /\ tRow' = [tRow EXCEPT ![t] = Tail(@)]
    /\ tPc' = [tPc EXCEPT ![t] = IF Len(tRow[t]) = 1 THEN "done" ELSE "load"]
    /\ UNCHANGED <<wSchema, wState, wOpts, wMaps, wCustom, hasWrittenHeaders,
                   hasWrittenHeaderMux, wHandle, wDisk, wErr, wRet, wWritten, wCalls,
                   tRec, tN, tErr, tagVars, convVars, readerVars>>

ConcNext ==
    \E t \in Threads :
        \/ WriteCall(t)
        \/ WriteLock(t)
        \/ WriteHeader(t)
        \/ WriteConvert(t)
        \/ WriteLoad(t)
        \/ WriteStore(t)

SpecConcurrent == ConcInit /\ [][ConcNext]_vars

----------------------------------------------------------------------------
(* Claims on schema resolution. *)

\* The name field i of the struct takes in a direction, read off the tag
\* text: the part before the first comma on read; on write the part between
\* the first and the second comma when there is a comma, else the whole tag.
RECURSIVE UpToComma(_)
UpToComma(s) ==
    IF s = <<>> \/ Head(s) = Comma THEN <<>> ELSE <<Head(s)>> \o UpToComma(Tail(s))

RECURSIVE AfterComma(_)
AfterComma(s) ==
    IF s = <<>> THEN <<>> ELSE IF Head(s) = Comma THEN Tail(s) ELSE AfterComma(Tail(s))

HasComma(s) == \E i \in 1..Len(s) : s[i] = Comma

DirName(tag, forWrite) ==
    IF forWrite /\ HasComma(tag) THEN UpToComma(AfterComma(tag)) ELSE UpToComma(tag)

Included(n) == n # <<>> /\ n # <<"-">>

\* Two tagged fields share a non-excluded name in the direction.
Collides(tags, forWrite) ==
    \E i, j \in 1..Len(tags) :
        /\ i < j
        /\ tags[i] # NoTag /\ tags[j] # NoTag
        /\ Included(DirName(tags[i], forWrite))
        /\ DirName(tags[i], forWrite) = DirName(tags[j], forWrite)

\* The tagged fields (1-based) whose name in the direction is included.
IncludedFields(tags, forWrite) ==
    {k \in 1..Len(tags) : tags[k] # NoTag /\ Included(DirName(tags[k], forWrite))}

C6_DuplicateNameFails ==
    tagOut.fn # "none" =>
        /\ Collides(structTags, tagOut.forWrite) =>
              tagOut.err = ErrStructTagDuplicate /\ tagOut.nilMap
        /\ ~Collides(structTags, tagOut.forWrite) =>
              tagOut.err = ErrNone /\ ~tagOut.nilMap

\* C6 witness: a struct whose names collide on read only has been resolved
\* for write and succeeded, and repeats "-" without failing.
C6_Witness ==
    /\ tagOut.fn = "csvdoc" /\ tagOut.forWrite
    /\ Collides(structTags, FALSE)
    /\ ~Collides(structTags, TRUE)
    /\ tagOut.err = ErrNone

----------------------------------------------------------------------------
(* Claims on the default converters. *)

\* The field types the round-trip claim names.
RoundTripTypes == {"int64", "uint64", "bool", "string", "time.Time"} \cup NullTypes

\* A value the text form keeps whole: a time on a whole second in UTC, a
\* valid wrapper whose payload is kept whole and is not the empty string, a
\* null wrapper with the zero payload.
RECURSIVE KeptWhole(_, _)
KeptWhole(tp, v) ==
    CASE tp = "time.Time" -> v.nsec = 0 /\ v.off = 0
      [] tp \in NullTypes ->
            IF v.Valid
            THEN KeptWhole(PayloadOf(tp), v.V) /\ ~(tp = "sql.NullString" /\ v.V = <<>>)
            ELSE v.V = Zero(PayloadOf(tp))
      [] OTHER -> TRUE

\* What a value is expected to read back as: a time as its wall clock to
\* the second in UTC, a null wrapper and a valid empty sql.NullString as the
\* zero (null) wrapper.
RECURSIVE ReadsBackAs(_, _)
ReadsBackAs(tp, v) ==
    CASE tp = "time.Time" -> [sec |-> v.sec + v.off, nsec |-> 0, off |-> 0]
      [] tp \in NullTypes ->
            IF ~v.Valid \/ (tp = "sql.NullString" /\ v.V = <<>>)
            THEN Zero(tp)
            ELSE [Valid |-> TRUE, V |-> ReadsBackAs(PayloadOf(tp), v.V)]
      [] OTHER -> v

\* A wrapper value as a program holds it: valid with any payload, or null
\* with the zero payload.
UsualValue(tp, v) == tp \in NullTypes => (v.Valid \/ v.V = Zero(PayloadOf(tp)))

----------------------------------------------------------------------------
(* Claims on the reader. *)

\* The read-names of a record type, read off its tags.
ReadNames(schema) ==
    {DirName(schema[k].tag, FALSE) :
        k \in {j \in 1..Len(schema) :
                  schema[j].tag # NoTag /\ Included(DirName(schema[j].tag, FALSE))}}

CellsOf(line) == {line[i] : i \in 1..Len(line)}
NoRepeatedCell(line) == \A i, j \in 1..Len(line) : line[i] = line[j] => i = j
PositionOf(line, cell) == CHOOSE i \in 1..Len(line) : line[i] = cell

\* Every data row has as many cells as the header.
AllRowsFull(file) == \A l \in 1..Len(file) : Len(file[l]) = Len(file[1])

\* This step is a call of Read.
IsReadStep == rCalls' = rCalls + 1 /\ rRet'.op = "Read"

\* C3: after a Reset that returned nil, the Reads that follow return the data
\* rows in file order from the first one: the r-th Read after the Reset
\* takes line 1 + r of the file (rows of full length, handle not closed by
\* the caller).
C3_ResetRewinds ==
    (/\ rRet.op = "Read"
     /\ rSince >= 1
     /\ AllRowsFull(rFile)
     /\ 1 + rSince <= Len(rFile)
     /\ rRet.err # ErrFileClosed)
    => rRet.line = 1 + rSince

\* C4: a Read in which a converter fails returns the error with a nil
\* record and leaves the handle as it was, and the Read right after it takes
\* the line after the failed one (on a reader whose offset no Reset has moved).
C4_ConversionFailureSkipsOneRow ==
    [][/\ (IsReadStep /\ rRet'.stage = "cell") =>
             /\ rRet'.err # ErrNone
             /\ rRet'.nilRec
             /\ rHandle'.open = rHandle.open
             /\ rHandle'.released = rHandle.released
       /\ (/\ rRet.op = "Read" /\ rRet.stage = "cell" /\ rSince = 0 - 1
           /\ IsReadStep /\ rRet'.line # 0) =>
             rRet'.line = rRet.line + 1
      ]_vars

\* C4 witness: a Read failed on a cell of line 2, the handle is open and
\* the next line is waiting.
C4_Witness ==
    /\ rRet.op = "Read" /\ rRet.stage = "cell" /\ rRet.line = 2
    /\ rRet.nilRec /\ rHandle.open /\ rSince = 0 - 1
    /\ Len(rFile) >= 3

\* The record the bound cells of a line give: the field carrying read-name n
\* holds the cell under header n, converted; every other field is zero.
RecordOfLine(schema, header, line, custom) ==
    [k \in 0..(Len(schema) - 1) |->
        LET tag == schema[k + 1].tag
            tp == schema[k + 1].tp
        IN IF tag # NoTag /\ Included(DirName(tag, FALSE))
           THEN ReadDispatch(DirName(tag, FALSE), tp,
                             line[PositionOf(header, DirName(tag, FALSE))],
                             Zero(tp), custom).val
           ELSE Zero(tp)]

C8_UnknownColumnLeavesOverrides ==
    [][(rRet'.op = "AddConvertor" /\ rRet'.arg \notin ReadNames(rSchema)) =>
          (rRet'.err = ErrNotFoundHeaderInCSV /\ rCustom' = rCustom)]_vars

\* C8 witness: an override is installed and a later AddConvertor for an
\* unknown column has failed.
C8_Witness ==
    /\ rRet.op = "AddConvertor" /\ rRet.arg = <<"nosuch">>
    /\ rRet.err = ErrNotFoundHeaderInCSV
    /\ DOMAIN rCustom = {<<"id">>}

\* The field types without a null state that hold a number.
NumericTypes == IntTypes \cup UintTypes \cup FloatTypes

\* The line has an empty cell under a column bound to a numeric field that
\* no custom converter handles.
EmptyNumericCell(schema, header, line, custom) ==
    \E i \in 1..Len(line), k \in 1..Len(schema) :
        /\ i <= Len(header)
        /\ schema[k].tag # NoTag
        /\ DirName(schema[k].tag, FALSE) = header[i]
        /\ Included(header[i])
        /\ schema[k].tp \in NumericTypes
        /\ line[i] = <<>>
        /\ header[i] \notin DOMAIN custom

\* C11: a Read of a line with an empty cell bound to a non-nullable numeric
\* field returns an error.
C11_EmptyNumericCellFails ==
    (/\ rRet.op = "Read"
     /\ rRet.line >= 1
     /\ EmptyNumericCell(rSchema, rFile[1], rFile[rRet.line], rCustom))
    => rRet.err # ErrNone

----------------------------------------------------------------------------
(* Claims on the writer. *)

\* The write-names of a record type, read off its tags.
WriteNames(schema) ==
    {DirName(schema[k].tag, TRUE) :
        k \in {j \in 1..Len(schema) :
                  schema[j].tag # NoTag /\ Included(DirName(schema[j].tag, TRUE))}}

\* The tokens of a sequence of lines, one after the other.
RECURSIVE TokensOfLines(_, _)
TokensOfLines(lines, comma) ==
    IF lines = <<>> THEN <<>>
    ELSE LineTokens(Head(lines), comma) \o TokensOfLines(Tail(lines), comma)

\* What the writer has put out: the file and the buffer after it.
Output == wDisk \o SubSeq(wBuf, 1, wN)

HeaderLineOf(opts) == IF opts.writeHeader THEN <<opts.outputHeader.names>> ELSE <<>>

\* The row goroutine t's record makes.
RowOf(t) == (CHOOSE o \in BuildRow(tRec[t], wSchema, wOpts, wMaps, wCustom) : TRUE).row

\* The orders in which the goroutines' rows can follow one another.
Orders == {f \in [Threads -> Threads] : \A a, b \in Threads : f[a] = f[b] => a = b}

\* C1: when every goroutine has called Write once on a fresh writer with
\* header emission enabled and every call has returned nil, the output is
\* the header line followed by the goroutines' rows, each once, in some order.
C1_OneHeaderThenEveryRow ==
    (/\ tPc # <<>>
     /\ wOpts.writeHeader
     /\ \A t \in Threads : tPc[t] = "done" /\ tErr[t] = ErrNone)
    => \E f \in Orders :
          Output = TokensOfLines(<<wOpts.outputHeader.names>>
                                 \o [i \in Threads |-> RowOf(f[i])],
                                 wOpts.escapeRune)

\* C2: a Write call returns, and when it has returned the header mutex is
\* free, whatever the call returned.
C2_WriteReturnsWithLockFree ==
    wRet.op = "Write" => (wRet.returned /\ hasWrittenHeaderMux = 0)

\* Every field type of the record type has a default write converter and
\* the delimiter is one csv.Writer accepts: a Write can only fail in a
\* custom converter.
OnlyConversionFails ==
    /\ wState = "open"
    /\ ValidDelim(wOpts.escapeRune)
    /\ \A k \in 1..Len(wSchema) : wSchema[k].tp \in WriteDefaultTypes

\* C5 as stated: the output is what the Write calls that returned nil put
\* there, the header line included: a Write that failed in a converter has
\* added nothing.
C5_FailedWriteAppendsNothing ==
    OnlyConversionFails =>
        Output = TokensOfLines((IF wWritten = <<>> THEN <<>> ELSE HeaderLineOf(wOpts))
                               \o wWritten, wOpts.escapeRune)

\* C5: a Write that fails in a converter adds no row to the output; the
\* header line is there from the first Write call on, failed or not, and
\* after any Write the output is the header line followed by the rows of
\* the calls that returned nil.
C5_FailedWriteAppendsNoRow ==
    (OnlyConversionFails /\ wRet.op = "Write") =>
        Output = TokensOfLines(HeaderLineOf(wOpts) \o wWritten, wOpts.escapeRune)

\* C5 witness: of two Write calls one failed in a converter and the other
\* returned nil, on a writer that emits its header.
C5_Witness ==
    /\ OnlyConversionFails
    /\ wOpts.writeHeader
    /\ wRet.op = "Write" /\ wRet.err = ErrNone
    /\ wCalls = 2 /\ wHandle.open
    /\ Len(wWritten) = 1

\* C9: the override table only holds write-names of the record type, and an
\* AddConverter for another name has returned an error.
C9_UnknownColumnRejected ==
    /\ DOMAIN wCustom \subseteq WriteNames(wSchema)
    /\ (wRet.op = "AddConverter" /\ wRet.arg \notin WriteNames(wSchema)) =>
          wRet.err # ErrNone

\* C13: NewFileReader of a file without a line fails with the end-of-input
\* error and holds no handle.  On an open reader that has only been read
\* (rows of full length), the k-th Read takes line 1 + k of the file, never
\* the header, and a record it returns is that line's record; the Read
\* after the last row returns the end-of-input error and releases the
\* handle.
C13_ReadsRowsInOrderThenEOF ==
    [][/\ (rState = "new" /\ rState' # "new" /\ rFile = <<>>
           /\ buildReflectTagIndexCacheRead(TagsOf(rSchema)).err = ErrNone) =>
             /\ rState' = "failed"
             /\ rRet'.err = ErrEOF
             /\ ~rHandle'.open /\ rHandle'.released = rHandle'.opened
       /\ (/\ rState = "open" /\ rHandle.open /\ rSince = 0 - 1
           /\ AllRowsFull(rFile) /\ IsReadStep) =>
             IF rCalls' <= Len(rFile) - 1
             THEN /\ rRet'.line = 1 + rCalls'
                  /\ rRet'.stage # "line"
                  /\ rHandle'.open
                  /\ rRet'.err = ErrNone =>
                        /\ ~rRet'.nilRec
                        /\ rRet'.rec = RecordOfLine(rSchema, rFile[1],
                                                    rFile[rRet'.line], rCustom)
             ELSE /\ rRet'.err = ErrEOF
                  /\ rRet'.nilRec
                  /\ ~rHandle'.open /\ rHandle'.released = rHandle'.opened
      ]_vars

\* C13 witness: a file of a header and two different rows has been read to
\* its end by three Reads: the third returned the end-of-input error and
\* released the handle.
C13_Witness ==
    /\ rState = "open" /\ Len(rFile) = 3 /\ AllRowsFull(rFile)
    /\ rFile[2] # rFile[3]
    /\ rSince = 0 - 1 /\ rCalls = 3
    /\ rRet.op = "Read" /\ rRet.err = ErrEOF
    /\ ~rHandle.open /\ rHandle.released = 1

\* The lines written so far when the header is the first of them.
HeaderThenRows(withHeader) ==
    TokensOfLines((IF withHeader THEN <<wOpts.outputHeader.names>> ELSE <<>>) \o wWritten,
                  wOpts.escapeRune)

FieldOfWriteName(schema, n) ==
    CHOOSE k \in 1..Len(schema) : schema[k].tag # NoTag /\ DirName(schema[k].tag, TRUE) = n

\* What the field with write-name n of record tm converts to.
ConvertedField(tm, schema, n, custom) ==
    LET k == FieldOfWriteName(schema, n)
    IN WriteDispatch(n, schema[k].tp, tm[k - 1], custom)

\* C15: the output order of an open writer is a list of different
\* write-names; the header line is that list; a Write returns nil when the
\* requested fields convert (and csv.Writer takes the line), and its row has
\* the length of the list and holds at position p what the field with the
\* p-th requested write-name converts to.
C15_RowsFollowRequestedOrder ==
    wState = "open" =>
      LET L == wOpts.outputHeader.names
      IN /\ NoRepeatedCell(L) /\ CellsOf(L) \subseteq WriteNames(wSchema)
         /\ hasWrittenHeaders =>
               /\ Len(Output) >= Len(LineTokens(L, wOpts.escapeRune))
               /\ SubSeq(Output, 1, Len(LineTokens(L, wOpts.escapeRune)))
                     = LineTokens(L, wOpts.escapeRune)
         /\ (/\ wRet.op = "Write" /\ wRet.returned
             /\ ValidDelim(wOpts.escapeRune) /\ wErr = ErrNone
             /\ \A p \in 1..Len(L) :
                   ConvertedField(wRet.arg, wSchema, L[p], wCustom).err = ErrNone) =>
               /\ wRet.err = ErrNone
               /\ wWritten # <<>>
               /\ Len(wWritten[Len(wWritten)]) = Len(L)
               /\ \A p \in 1..Len(L) :
                     wWritten[Len(wWritten)][p]
                       = ConvertedField(wRet.arg, wSchema, L[p], wCustom).s

\* C15 witness: a writer opened with the output order name,id has written
\* the record {ID: 7, Name: alice}: the output is the header name,id and
\* the row alice,7.
C15_Witness ==
    /\ wState = "open" /\ wSchema = IDName /\ wOpts.writeHeader
    /\ wOpts.escapeRune = Comma
    /\ wOpts.outputHeader.names = <<<<"name">>, <<"id">>>>
    /\ wRet.op = "Write" /\ wRet.err = ErrNone
    /\ wRet.arg = [k \in 0..1 |-> IF k = 0 THEN 7 ELSE <<"alice">>]
    /\ Output = <<<<"name">>, <<Comma>>, <<"id">>, EOL,
                  <<"alice">>, <<Comma>>, <<"7">>, EOL>>

\* C21: NewFileReader of a file whose header holds the same cell text at two
\* positions, for a record type whose read schema resolves, returns
\* ErrDuplicateHeaderInCSV.
C21_RepeatedHeaderCellFails ==
    (/\ rRet.op = "NewFileReader"
     /\ rFile # <<>>
     /\ buildReflectTagIndexCacheRead(TagsOf(rSchema)).err = ErrNone
     /\ ~NoRepeatedCell(rFile[1]))
    => (rState = "failed" /\ rRet.err = ErrDuplicateHeaderInCSV)

\* The cell is a decimal text that parses as a 64-bit integer of the
\* field's signedness.
ParsesAs64(tp, cell) ==
    IF tp \in IntTypes THEN ParseInt(cell, 64).err = ErrNone
    ELSE ParseUint(cell, 64).err = ErrNone

Parsed64(tp, cell) ==
    IF tp \in IntTypes THEN ParseInt(cell, 64).val ELSE ParseUint(cell, 64).val

\* The value lies in the range of the field's type (of the 32- and 64-bit
\* types every decimal text of the model is in range).
InRangeOf(tp, v) ==
    CASE tp = "int16" -> v >= 0 - 32768 /\ v <= 32767
      [] tp = "uint16" -> v >= 0 /\ v <= 65535
      [] OTHER -> TRUE

\* C22: a default read converter of an integer field, signed or unsigned,
\* given a decimal cell that parses as a 64-bit integer, returns
\* ErrTypeOverflow and leaves the field unset when the value is outside the
\* field's range, and stores the value unchanged when it is inside.
C22_OverflowIsErrTypeOverflow ==
    (/\ cvRead.src = "cell"
     /\ cvType \in IntTypes \cup UintTypes
     /\ ParsesAs64(cvType, cvCell))
    => IF InRangeOf(cvType, Parsed64(cvType, cvCell))
       THEN cvRead.err = ErrNone /\ cvRead.val = Parsed64(cvType, cvCell)
       ELSE cvRead.err = ErrTypeOverflow /\ cvRead.val = Zero(cvType)

\* The write-names of a record type in field declaration order.
WriteNamesInOrder(schema) ==
    LET inc == SelectSeq(TagsOf(schema),
                         LAMBDA t : t # NoTag /\ Included(DirName(t, TRUE)))
    IN [k \in 1..Len(inc) |-> DirName(inc[k], TRUE)]

\* C16: NewFileWriter without an output order, for a record type whose write
\* schema resolves, returns nil and binds the output columns to the
\* write-names in field declaration order.
C16_DefaultOrderIsDeclarationOrder ==
    (/\ wRet.op = "NewFileWriter"
     /\ wRet.arg.openOk /\ ~wRet.arg.outputHeader.set
     /\ buildReflectTagIndexCache(TagsOf(wSchema), TRUE).err = ErrNone)
    => /\ wRet.err = ErrNone
       /\ wState = "open"
       /\ wOpts.outputHeader.names = WriteNamesInOrder(wSchema)

\* A NewFileWriter with an output order has just returned, for a file that
\* opens and a record type whose write schema resolves.
OpenedWithOrder ==
    /\ wRet.op = "NewFileWriter"
    /\ wRet.arg.openOk /\ wRet.arg.outputHeader.set
    /\ buildReflectTagIndexCache(TagsOf(wSchema), TRUE).err = ErrNone

\* The maps send each requested name to its position and back.
MapsAreInverse(L, maps) ==
    /\ DOMAIN maps.headerIndex = CellsOf(L)
    /\ DOMAIN maps.indexHeader = 0..(Len(L) - 1)
    /\ \A p \in 1..Len(L) :
          maps.headerIndex[L[p]] = p - 1 /\ maps.indexHeader[p - 1] = L[p]

\* The positions of the requested list that repeat an earlier name or hold
\* no write-name.
BadPositions(L, names) ==
    {i \in 1..Len(L) : L[i] \notin names \/ \E j \in 1..(i - 1) : L[j] = L[i]}

\* C17 as stated: ErrToFewStructTags for a list longer than the write-names,
\* ErrStructTagNotInCSV for a list with a name that is no write-name, and
\* otherwise the open succeeds with maps that are inverse to each other
\* over the requested names.
C17_OpenErrorsOrInverseMaps ==
    OpenedWithOrder =>
      LET L == wRet.arg.outputHeader.names
          names == WriteNames(wSchema)
      IN IF Len(L) > Cardinality(names) THEN wRet.err = ErrToFewStructTags
         ELSE IF ~(CellsOf(L) \subseteq names) THEN wRet.err = ErrStructTagNotInCSV
         ELSE wRet.err = ErrNone /\ wState = "open" /\ MapsAreInverse(L, wMaps)

\* C17: ErrToFewStructTags for a list longer than the write-names; else the
\* first position that repeats an earlier name or holds no write-name fails
\* the open, with ErrDuplicateHeaderInCSV for a repeat and
\* ErrStructTagNotInCSV for an unknown name; else the open succeeds with
\* maps that are inverse to each other over the requested names.
C17_OpenErrorsDuplicateOrInverseMaps ==
    OpenedWithOrder =>
      LET L == wRet.arg.outputHeader.names
          names == WriteNames(wSchema)
          bad == BadPositions(L, names)
          first == CHOOSE i \in bad : \A j \in bad : i <= j
      IN IF Len(L) > Cardinality(names) THEN wRet.err = ErrToFewStructTags
         ELSE IF bad # {}
         THEN /\ wRet.err = IF L[first] \in names THEN ErrDuplicateHeaderInCSV
                            ELSE ErrStructTagNotInCSV
              /\ wState = "failed"
         ELSE wRet.err = ErrNone /\ wState = "open" /\ MapsAreInverse(L, wMaps)

\* C17 witness: NewFileWriter with the output order name,id has returned
\* a writer whose maps hold name at 0 and id at 1.
C17_Witness ==
    /\ OpenedWithOrder /\ wState = "open" /\ wSchema = IDName
    /\ wRet.arg.outputHeader.names = <<<<"name">>, <<"id">>>>
    /\ wMaps.headerIndex[<<"name">>] = 0 /\ wMaps.indexHeader[1] = <<"id">>

\* The field (1-based) whose read-name is n.
FieldOfReadName(schema, n) ==
    CHOOSE k \in 1..Len(schema) : schema[k].tag # NoTag /\ DirName(schema[k].tag, FALSE) = n

\* What precedence gives for cell i of a line on Read: the override of the
\* column when there is one, else the default of the field's type, else
\* ErrConverterNotFoundForType.
ReadByPrecedence(schema, header, line, i, custom) ==
    LET tp == schema[FieldOfReadName(schema, header[i])].tp
    IN IF header[i] \in DOMAIN custom
       THEN CustomRead(custom[header[i]], line[i], tp, Zero(tp))
       ELSE IF tp \in DefaultConvertsTypes THEN DefaultConvert(tp, line[i], Zero(tp))
       ELSE Ret(ErrConverterNotFoundForType, Zero(tp))

\* What precedence gives for the field with write-name n on Write, for a
\* field that has an override or a default.
WriteByPrecedence(schema, n, tm, custom) ==
    LET k == FieldOfWriteName(schema, n)
    IN IF n \in DOMAIN custom THEN CustomWrite(custom[n], tm[k - 1])
       ELSE WriteDefault(schema[k].tp, tm[k - 1])

\* The last Read took a line and went through its cells.
ReadDispatched ==
    /\ rState = "open" /\ rRet.op = "Read" /\ rRet.line >= 1 /\ rRet.stage # "line"

\* The last Write got past the header and csv.Writer takes lines, and every
\* requested field has an override or a default.
WriteDispatched ==
    /\ wState = "open" /\ wRet.op = "Write" /\ wRet.returned
    /\ ValidDelim(wOpts.escapeRune) /\ wErr = ErrNone
    /\ \A p \in 1..Len(wOpts.outputHeader.names) :
          LET n == wOpts.outputHeader.names[p]
          IN n \in DOMAIN wCustom
             \/ wSchema[FieldOfWriteName(wSchema, n)].tp \in WriteDefaultTypes

\* C19: on Read each bound cell goes through the column's override when one
\* is installed, else through the default of the field's type, else Read
\* returns ErrConverterNotFoundForType: the record holds what precedence
\* gives for every bound cell, or Read returns the error of the first cell
\* for which precedence fails.  On Write each requested field goes through
\* its override when one is installed, else through its type's default.
\* RemoveConvertor and RemoveConverter return nil and take the column out
\* of the overrides, which stay as they were when it had none.
C19_DispatchPrecedence ==
    [][/\ ReadDispatched' =>
             LET header == rFile[1]
                 line == rFile[rRet'.line]
                 bound == {i \in 1..Len(line) : header[i] \in ReadNames(rSchema)}
                 res(i) == ReadByPrecedence(rSchema, header, line, i, rCustom')
                 bad == {i \in bound : res(i).err # ErrNone}
             IN IF bad = {}
                THEN /\ rRet'.err = ErrNone
                     /\ \A i \in bound :
                           rRet'.rec[FieldOfReadName(rSchema, header[i]) - 1] = res(i).val
                ELSE rRet'.err = res(CHOOSE i \in bad : \A j \in bad : i <= j).err
       /\ WriteDispatched' =>
             LET L == wOpts.outputHeader.names
                 res(p) == WriteByPrecedence(wSchema, L[p], wRet'.arg, wCustom')
                 bad == {p \in 1..Len(L) : res(p).err # ErrNone}
             IN IF bad = {}
                THEN /\ wRet'.err = ErrNone
                     /\ \A p \in 1..Len(L) :
                           wWritten'[Len(wWritten')][p] = res(p).s
                ELSE \E p \in bad : wRet'.err = res(p).err
       /\ rRet'.op = "RemoveConvertor" =>
             /\ rRet'.err = ErrNone
             /\ DOMAIN rCustom' = DOMAIN rCustom \ {rRet'.arg}
             /\ \A n \in DOMAIN rCustom' : rCustom'[n] = rCustom[n]
             /\ rRet'.arg \notin DOMAIN rCustom => rCustom' = rCustom
       /\ wRet'.op = "RemoveConverter" =>
             /\ wRet'.err = ErrNone
             /\ DOMAIN wCustom' = DOMAIN wCustom \ {wRet'.arg}
             /\ \A n \in DOMAIN wCustom' : wCustom'[n] = wCustom[n]
             /\ wRet'.arg \notin DOMAIN wCustom => wCustom' = wCustom
      ]_vars

\* C19 witness: with an override on the column id, a Read of the row
\* x,carol has returned the override's value in ID although the type's
\* default rejects the cell x.
C19_Witness ==
    /\ ReadDispatched /\ rSchema = IDName
    /\ rFile[1] = <<<<"id">>, <<"name">>, <<"extra">>>>
    /\ rFile[rRet.line][1] = <<"x">>
    /\ <<"id">> \in DOMAIN rCustom
    /\ rRet.err = ErrNone /\ rRet.rec[0] = Marked("int64")
    /\ DefaultConvert("int64", <<"x">>, 0).err # ErrNone

\* The requested write-names whose field has no override and no default.
WithoutConverter ==
    {p \in 1..Len(wOpts.outputHeader.names) :
        LET n == wOpts.outputHeader.names[p]
        IN /\ n \notin DOMAIN wCustom
           /\ wSchema[FieldOfWriteName(wSchema, n)].tp \notin WriteDefaultTypes}

\* C20: a Write (past the header, on a csv.Writer that takes lines) of a
\* record with a requested field that has no override and no default
\* converter returns ErrConverterNotFoundForType.
C20_WriteWithoutConverterFails ==
    (/\ wState = "open" /\ wRet.op = "Write" /\ wRet.returned
     /\ ValidDelim(wOpts.escapeRune) /\ wErr = ErrNone
     /\ WithoutConverter # {}
     /\ \A n \in DOMAIN wCustom : wCustom[n] = "mark")
    => wRet.err = ErrConverterNotFoundForType

\* The cells (1-based) of the header that are bound to a bool field without
\* an override.
BoolCells ==
    {i \in 1..Len(rFile[1]) :
        /\ rFile[1][i] \in ReadNames(rSchema)
        /\ rFile[1][i] \notin DOMAIN rCustom
        /\ rSchema[FieldOfReadName(rSchema, rFile[1][i])].tp = "bool"}

\* C23: a Read (of a reader that NewFileReader returned) of a line with a
\* cell bound to a bool field finds a default converter for it, and a record
\* it returns holds true for a case variant of true, 1, on, yes, y and false
\* for any other text that is not empty.
C23_BoolCellHasDefault ==
    (ReadDispatched /\ BoolCells # {}) =>
       /\ rRet.err # ErrConverterNotFoundForType
       /\ rRet.err = ErrNone =>
             \A i \in BoolCells :
                /\ rFile[rRet.line][i] # <<>>
                /\ rRet.rec[FieldOfReadName(rSchema, rFile[1][i]) - 1]
                      = IsTrueText(ToLower(rFile[rRet.line][i]))

\* C24: after NewFileReader or NewFileWriter has returned an error, the
\* file the call opened, if any, is closed.
C24_FailedOpenLeavesNoHandle ==
    /\ rState = "failed" => (~rHandle.open /\ rHandle.released = rHandle.opened)
    /\ (wState = "failed" /\ wRet.err # PanicIndexOutOfRange) =>
          (~wHandle.open /\ wHandle.released = wHandle.opened)

\* C25: when Close is called right after the Read that ended the reading
\* with the end of the input or a line error, on a reader that was only
\* read before, the handle has been released exactly once and Close
\* returns nil; a Read that returns a conversion error leaves the handle
\* open.
C25_CloseAfterLastReadReturnsNil ==
    /\ (/\ rState = "open" /\ rRet.op = "Close" /\ rSince = 0 - 1
        /\ rRet.arg # <<>>) =>
          (rHandle.released = 1 /\ ~rHandle.open /\ rRet.err = ErrNone)
    /\ (/\ rState = "open" /\ rRet.op = "Read" /\ rRet.stage = "cell"
        /\ rHandle.released = 0) => rHandle.open

\* C12: a Close after which the buffered output could not be flushed to the
\* file has returned an error.
C12_FlushFailureReported ==
    (wRet.op = "Close" /\ wErr # ErrNone) => wRet.err # ErrNone

====
